---- MODULE Spec2Model ----
(***************************************************************************)
(* Gesture-recognition-to-action pipeline of the motion flashcard app:     *)
(* rule-based classifier (gestureEngine), temporal smoothing (CameraFeed), *)
(* debounced/throttled gesture setter (PoseProvider), action dispatcher    *)
(* (actionDispatcher) and the lesson page that consumes them.              *)
(*                                                                         *)
(* Units.  Time is in milliseconds.  Landmark coordinates and visibility   *)
(* are in thousandths (0.5 is 500), thresholds in ten-thousandths          *)
(* (0.025 is 250, so that 0.8 x and 1.5 x a calibrated delta stay          *)
(* integral), the sensitivity factor in hundredths (0.12 is 12).           *)
(* Comparisons of scaled thresholds are done on exact fractions, so the    *)
(* model does not reproduce floating-point rounding at exact ties.         *)
(***************************************************************************)
EXTENDS Integers, Sequences, FiniteSets, TLC

VARIABLES
    now,               \* Date.now() / performance.now()
    state,             \* ActionDispatcherState of the lesson page's dispatcher
    lastResult,        \* the last dispatch call and what it returned
    calls,             \* number of direct dispatch calls made (unit-level runs)
    landmarks,         \* the landmark frame handed to the classifier
    sensitivityFactor, \* numericSensitivity passed to the classifier
    calibration,       \* value of loadCalibrationThresholdsFromStorage()
    inferredGesture,   \* last result of inferGestureFromLandmarks, or NoGesture
    timers,            \* pending setTimeout callbacks: [kind, at]
    pose,              \* PoseProvider: currentGesture and its refs
    camera,            \* CameraFeed: mounted, gestureHistoryRef, currentGestureRef
    lesson,            \* LessonPage: state and previousGestureRef
    modal,             \* CalibrationModal: state and refs
    localStorage,      \* window.localStorage: the entries the program keeps
    cache,             \* gestureEngine: cachedCalibration, lastCalibrationCheck
    pendingWrites,     \* progressStorage: pendingWrites (debounceTimers are in timers)
    mon                \* observations of the run, read by no operation

clsVars == <<landmarks, sensitivityFactor, calibration, inferredGesture>>
dispVars == <<state, lastResult, calls>>
uiVars == <<timers, pose, camera, lesson, mon>>
storeVars == <<localStorage, cache, pendingWrites>>
vars == <<now, dispVars, clsVars, uiVars, modal, storeVars>>

----------------------------------------------------------------------------
(* Bounds of the model *)

\* number of 50 ms steps the clock is followed for
HorizonSteps == 48
\* number of direct dispatch calls of a unit-level run
MaxCalls == 4
\* number of direct dispatch calls of a run that fills the action log
MaxLogCalls == 7
\* fifths of a second a run of repeated dispatch calls is followed for
RepeatTicks == 7
\* number of direct setGesture calls of a unit-level run, and its length
MaxRequests == 4
SchedulerTicks == 12
\* length of a run of the gesture setter under a clock that is set back
ThrottleTicks == 8
StreamTicks == 20
LessonTicks == 15
\* number of processed frames of a landmark stream, and of the PREV frames
\* it begins with
MaxStreamFrames == 13
LeadFrames == 5
\* number of processed frames, of key presses and of cards of a lesson run
MaxFrames == 4
\* number of processed frames of a run that fills the gesture history, and
\* its length
MaxSmoothFrames == 8
SmoothTicks == 1
\* number of samples of a collection window, and seconds a calibration is
\* followed for
MaxCalSamples == 2
CalTicks == 24
\* seconds a sequence of classifications that load the profile is followed for
LoadTicks == 3
\* number of saveProgress and reset calls of a unit-level run, and tenths of
\* a second it is followed for
MaxProgressOps == 4
ProgressTicks == 6
\* quiz answers of a unit-level run
MaxQuizAnswers == 3
MaxKeys == 2
\* quiz answers of a lesson, and the length of a lesson in quiz mode in
\* steps of 150 ms
NavAnswers == 1
\* pose results of a throttled stream, and its length in steps of 10 ms
MaxResults == 5
FrameTicks == 12
NavTicks == 19
DeckSize == 2

----------------------------------------------------------------------------
(* gestureTypes *)

GestureType == {"REST", "NEXT", "PREV", "SELECT"}
ALL_GESTURES == <<"REST", "NEXT", "PREV", "SELECT">>
NoGesture == "none"

Max(a, b) == IF a >= b THEN a ELSE b
Min(a, b) == IF a <= b THEN a ELSE b
Abs(a) == IF a < 0 THEN -a ELSE a

\* Date.now() when the page is constructed: far more than any window after 0
StartTime == 2000
\* last instant the model explores
MaxTime == StartTime + HorizonSteps * 50

----------------------------------------------------------------------------
(* gestureEngine: constants *)

LEFT_SHOULDER == 11
RIGHT_SHOULDER == 12
LEFT_WRIST == 15
RIGHT_WRIST == 16
ConsumedIndices == {LEFT_SHOULDER, RIGHT_SHOULDER, LEFT_WRIST, RIGHT_WRIST}
MinLandmarks == 17

MIN_VISIBILITY == 500

NEXT_DX_LEFT_MIN == 250
NEXT_ABS_DY_LEFT_MAX == 3100
PREV_DX_RIGHT_MIN == -510
PREV_ABS_DY_RIGHT_MAX == 3340
SELECT_DY_THRESHOLD == -3340

DefaultSensitivity == 12

\* visibility of a landmark that carries none (visibility === undefined)
NoVisibility == -1

\* A landmark slot of the frame: present = FALSE is a hole (undefined entry).
Landmark(x, y, v) == [present |-> TRUE, x |-> x, y |-> y, visibility |-> v]
MissingLandmark == [present |-> FALSE, x |-> 0, y |-> 0, visibility |-> NoVisibility]

\* A frame: its length and the four consumed entries.
Frame(len, ls, rs, lw, rw) ==
    [len |-> len,
     lm |-> (LEFT_SHOULDER :> ls) @@ (RIGHT_SHOULDER :> rs) @@
            (LEFT_WRIST :> lw) @@ (RIGHT_WRIST :> rw)]

\* loadCalibrationThresholds() result; isNull = TRUE is null.
NoCalibration ==
    [isNull |-> TRUE, calibrated |-> FALSE,
     rightHandUpDelta |-> 0, leftHandUpDelta |-> 0, bothHandsUpDelta |-> 0]
Calibration(c, r, l, b) ==
    [isNull |-> FALSE, calibrated |-> c,
     rightHandUpDelta |-> r, leftHandUpDelta |-> l, bothHandsUpDelta |-> b]

----------------------------------------------------------------------------
(* gestureEngine: inferGestureFromLandmarks *)

\* (variant: the visibility of a present landmark is not looked at)
LandmarkUnusableNoVisibility(l) == ~l.present

\* landmarks.length < 17, a hole, or visibility !== undefined && < MIN_VISIBILITY
LandmarkUnusable(l) ==
    \/ ~l.present
    \/ (l.visibility # NoVisibility /\ l.visibility < MIN_VISIBILITY)

FrameUnusable(f) ==
    \/ f.len < MinLandmarks
    \/ \E i \in ConsumedIndices : LandmarkUnusable(f.lm[i])

\* Feature extraction (thousandths)
Features(f) ==
    LET ls == f.lm[LEFT_SHOULDER]
        rs == f.lm[RIGHT_SHOULDER]
        lw == f.lm[LEFT_WRIST]
        rw == f.lm[RIGHT_WRIST]
    IN [dxRight |-> rw.x - rs.x,
        dxLeft |-> ls.x - lw.x,
        dyRight |-> rs.y - rw.y,
        dyLeft |-> ls.y - lw.y,
        absDyRight |-> Abs(rw.y - rs.y),
        absDyLeft |-> Abs(lw.y - ls.y)]

\* (variant: a calibrated profile overrides whatever the sign of its deltas)
BaseThresholdsAnyDelta(cal) ==
    LET useCal == ~cal.isNull /\ cal.calibrated
    IN [prevDxRightMin |-> PREV_DX_RIGHT_MIN,
        prevAbsDyRightMax |->
            IF useCal THEN cal.rightHandUpDelta * 15 ELSE PREV_ABS_DY_RIGHT_MAX,
        nextDxLeftMin |-> NEXT_DX_LEFT_MIN,
        nextAbsDyLeftMax |->
            IF useCal THEN cal.leftHandUpDelta * 15 ELSE NEXT_ABS_DY_LEFT_MAX,
        selectDyThreshold |->
            IF useCal THEN -(cal.bothHandsUpDelta * 8) ELSE SELECT_DY_THRESHOLD]

\* The five thresholds before sensitivity scaling (ten-thousandths):
\* the defaults, overridden by a calibrated profile.
BaseThresholds(cal) ==
    LET useCal == ~cal.isNull /\ cal.calibrated
    IN [prevDxRightMin |-> PREV_DX_RIGHT_MIN,
        prevAbsDyRightMax |->
            IF useCal /\ cal.rightHandUpDelta > 0
            THEN cal.rightHandUpDelta * 15 ELSE PREV_ABS_DY_RIGHT_MAX,
        nextDxLeftMin |-> NEXT_DX_LEFT_MIN,
        nextAbsDyLeftMax |->
            IF useCal /\ cal.leftHandUpDelta > 0
            THEN cal.leftHandUpDelta * 15 ELSE NEXT_ABS_DY_LEFT_MAX,
        selectDyThreshold |->
            IF useCal /\ cal.bothHandsUpDelta > 0
            THEN -(cal.bothHandsUpDelta * 8) ELSE SELECT_DY_THRESHOLD]

\* thresholdMultiplier = 1.0 / Math.max(0.01, s), as the fraction num/den
thresholdMultiplier(s) == [num |-> 100, den |-> Max(1, s)]

\* threshold * thresholdMultiplier, as a fraction of ten-thousandths
Adjusted(t, s) ==
    [num |-> t * thresholdMultiplier(s).num, den |-> thresholdMultiplier(s).den]

AdjustedThresholds(cal, s) ==
    LET b == BaseThresholds(cal)
    IN [prevDxRightMin |-> Adjusted(b.prevDxRightMin, s),
        prevAbsDyRightMax |-> Adjusted(b.prevAbsDyRightMax, s),
        nextDxLeftMin |-> Adjusted(b.nextDxLeftMin, s),
        nextAbsDyLeftMax |-> Adjusted(b.nextAbsDyLeftMax, s),
        selectDyThreshold |-> Adjusted(b.selectDyThreshold, s)]

\* v (thousandths) > q and v < q for a fraction q of ten-thousandths
GreaterThan(v, q) == (v * 10) * q.den > q.num
LessThan(v, q) == (v * 10) * q.den < q.num

\* (variant: the NEXT rule is tested before the PREV rule)
ClassifyNextFirst(ft, th) ==
    IF GreaterThan(ft.dxLeft, th.nextDxLeftMin)
        /\ LessThan(ft.absDyLeft, th.nextAbsDyLeftMax) THEN "NEXT"
    ELSE IF GreaterThan(ft.dxRight, th.prevDxRightMin)
        /\ LessThan(ft.absDyRight, th.prevAbsDyRightMax) THEN "PREV"
    ELSE IF LessThan(ft.dyRight, th.selectDyThreshold)
        /\ LessThan(ft.dyLeft, th.selectDyThreshold) THEN "SELECT"
    ELSE "REST"

\* The three rules in the order the code tests them.
Classify(ft, th) ==
    IF GreaterThan(ft.dxRight, th.prevDxRightMin)
        /\ LessThan(ft.absDyRight, th.prevAbsDyRightMax) THEN "PREV"
    ELSE IF GreaterThan(ft.dxLeft, th.nextDxLeftMin)
        /\ LessThan(ft.absDyLeft, th.nextAbsDyLeftMax) THEN "NEXT"
    ELSE IF LessThan(ft.dyRight, th.selectDyThreshold)
        /\ LessThan(ft.dyLeft, th.selectDyThreshold) THEN "SELECT"
    ELSE "REST"

inferGestureFromLandmarks(f, s, cal) ==
    IF FrameUnusable(f) THEN "REST"
    ELSE Classify(Features(f), AdjustedThresholds(cal, s))

----------------------------------------------------------------------------
(* calibrationStorage and the calibration cache of gestureEngine *)

CALIBRATION_CACHE_MS == 2000

\* A property of a parsed JSON object: its typeof, and its value
JsonField(type, num, bool) == [type |-> type, num |-> num, bool |-> bool]
JsonNumber(n) == JsonField("number", n, FALSE)
JsonBoolean(b) == JsonField("boolean", 0, b)
JsonString == JsonField("string", 0, FALSE)
JsonUndefined == JsonField("undefined", 0, FALSE)

JsonObject(r, l, b, c) ==
    [rightHandUpDelta |-> r, leftHandUpDelta |-> l,
     bothHandsUpDelta |-> b, calibrated |-> c]
NoObject == JsonObject(JsonUndefined, JsonUndefined, JsonUndefined, JsonUndefined)

\* The entry under the key gestureCalibration: no entry, the empty string,
\* a text JSON.parse rejects, or a text it parses to null, a number, an
\* array or an object
StoredEntry(kind, obj) == [kind |-> kind, obj |-> obj]
NoEntry == StoredEntry("absent", NoObject)

\* JSON.stringify(thresholds) as saveCalibrationThresholds stores it
Stringified(cal) ==
    StoredEntry("object",
        JsonObject(JsonNumber(cal.rightHandUpDelta), JsonNumber(cal.leftHandUpDelta),
                   JsonNumber(cal.bothHandsUpDelta), JsonBoolean(cal.calibrated)))

\* the structure test of loadCalibrationThresholds on JSON.parse(stored)
ValidStructure(entry) ==
    /\ entry.kind \in {"object", "array", "null"}       \* typeof parsed === 'object'
    /\ entry.kind # "null"                              \* parsed !== null
    /\ entry.obj.rightHandUpDelta.type = "number"
    /\ entry.obj.leftHandUpDelta.type = "number"
    /\ entry.obj.bothHandsUpDelta.type = "number"
    /\ entry.obj.calibrated.type = "boolean"

\* the parsed object as the thresholds the classifier reads
Parsed(entry) ==
    Calibration(entry.obj.calibrated.bool, entry.obj.rightHandUpDelta.num,
                entry.obj.leftHandUpDelta.num, entry.obj.bothHandsUpDelta.num)

\* localStorage.removeItem(STORAGE_KEY); it throws when the storage is
\* unavailable
Removed(ls) == [ls EXCEPT !.gestureCalibration = NoEntry]

\* the try block of loadCalibrationThresholds: what it returns or that it
\* threw, and the storage it leaves
LoadTry(ls) ==
    IF ls.unavailable
    THEN [threw |-> TRUE, result |-> NoCalibration, localStorage |-> ls]
    ELSE IF ls.gestureCalibration.kind \in {"absent", "empty"}
    THEN [threw |-> FALSE, result |-> NoCalibration, localStorage |-> ls]
    ELSE IF ls.gestureCalibration.kind = "unparsable"
    THEN [threw |-> TRUE, result |-> NoCalibration, localStorage |-> ls]
    ELSE IF ValidStructure(ls.gestureCalibration)
    THEN [threw |-> FALSE, result |-> Parsed(ls.gestureCalibration),
          localStorage |-> ls]
    ELSE [threw |-> FALSE, result |-> NoCalibration, localStorage |-> Removed(ls)]

\* (variant: nothing is caught)
loadCalibrationThresholdsNoCatch(ls) == LoadTry(ls)

\* loadCalibrationThresholds(): the try block and its catch
loadCalibrationThresholds(ls) ==
    IF LoadTry(ls).threw
    THEN [threw |-> FALSE, result |-> NoCalibration,
          localStorage |-> IF ls.unavailable THEN ls ELSE Removed(ls)]
    ELSE LoadTry(ls)

NoCache == [cachedCalibration |-> NoCalibration, lastCalibrationCheck |-> 0]

\* loadCalibrationThresholdsFromStorage() at time t: what it returns, whether
\* it called loadCalibrationThresholds and whether that threw, and the cache
\* and the storage it leaves
loadCalibrationThresholdsFromStorage(c, ls, t) ==
    IF ~c.cachedCalibration.isNull /\ t - c.lastCalibrationCheck < CALIBRATION_CACHE_MS
    THEN [result |-> c.cachedCalibration, loaded |-> FALSE, threw |-> FALSE,
          cache |-> c, localStorage |-> ls]
    ELSE LET r == loadCalibrationThresholds(ls)
         IN [result |-> IF r.threw THEN NoCalibration ELSE r.result,
             loaded |-> TRUE,
             threw |-> r.threw,
             cache |-> [cachedCalibration |->
                            IF r.threw THEN NoCalibration ELSE r.result,
                        lastCalibrationCheck |-> t],
             localStorage |-> r.localStorage]


\* the profile a load of the storage ls gives
StoredProfile(ls) == loadCalibrationThresholds(ls).result

\* the storage after saveCalibrationThresholds(cal); nothing is saved for null
Saved(ls, cal) ==
    IF cal.isNull THEN ls ELSE [ls EXCEPT !.gestureCalibration = Stringified(cal)]

----------------------------------------------------------------------------
(* progressStorage *)

PROGRESS_DEBOUNCE_MS == 200

\* category identifiers (slugs)
Categories == {"animals", "colors"}

\* LessonProgress
LessonProgress(i, c, t) ==
    [isNull |-> FALSE, index |-> i, completed |-> c, showTranslation |-> t]
NoProgress == [isNull |-> TRUE, index |-> 0, completed |-> FALSE, showTranslation |-> FALSE]

\* the entry under the key progress:<category>, in the manner of StoredEntry
ProgressObject(i, c, t) == [index |-> i, completed |-> c, showTranslation |-> t]
NoProgressObject == ProgressObject(JsonUndefined, JsonUndefined, JsonUndefined)
ProgressEntry(kind, obj) == [kind |-> kind, obj |-> obj]
NoProgressEntry == ProgressEntry("absent", NoProgressObject)

\* JSON.stringify(data) as debouncedWriteProgress stores it
StringifiedProgress(data) ==
    ProgressEntry("object",
        ProgressObject(JsonNumber(data.index), JsonBoolean(data.completed),
                       JsonBoolean(data.showTranslation)))

\* loadProgress(categoryId): what it returns and the storage it leaves.
\* JSON.parse throws on an unparsable text and the typeof tests throw on a
\* parsed null; the catch removes the entry
loadProgress(ls, c) ==
    LET e == ls.progress[c]
        removed == [ls EXCEPT !.progress[c] = NoProgressEntry]
    IN IF e.kind \in {"absent", "empty"}
       THEN [result |-> NoProgress, localStorage |-> ls]
       ELSE IF e.kind \in {"unparsable", "null"}
       THEN [result |-> NoProgress, localStorage |-> removed]
       ELSE IF /\ e.obj.index.type = "number"
               /\ e.obj.completed.type = "boolean"
               /\ e.obj.showTranslation.type = "boolean"
       THEN [result |-> LessonProgress(e.obj.index.num, e.obj.completed.bool,
                                       e.obj.showTranslation.bool),
             localStorage |-> ls]
       ELSE [result |-> NoProgress, localStorage |-> removed]

\* the debounce timer of a category is named after the category
ProgressTimer(c, at) == [kind |-> c, at |-> at]
ProgressTimers(T, c) == {tm \in T : tm.kind = c}

NoPendingWrites == [c \in Categories |-> NoProgress]

\* debouncedWriteProgress(categoryId): the storage and pendingWrites it
\* leaves, and whether it wrote
debouncedWriteProgress(ls, pw, c) ==
    IF pw[c].isNull
    THEN [localStorage |-> ls, pendingWrites |-> pw, wrote |-> FALSE]
    ELSE [localStorage |-> [ls EXCEPT !.progress[c] = StringifiedProgress(pw[c])],
          pendingWrites |-> [pw EXCEPT ![c] = NoProgress],
          wrote |-> TRUE]

\* (variant: the running timer of the category is not cancelled)
saveProgressKeepsTimer(pw, T, c, data, t) ==
    [pendingWrites |-> [pw EXCEPT ![c] = data],
     timers |-> T \union {ProgressTimer(c, t + PROGRESS_DEBOUNCE_MS)}]

\* saveProgress(categoryId, data) at time t: pendingWrites and the timers
\* it leaves
saveProgress(pw, T, c, data, t) ==
    [pendingWrites |-> [pw EXCEPT ![c] = data],
     timers |-> (T \ ProgressTimers(T, c))
                   \union {ProgressTimer(c, t + PROGRESS_DEBOUNCE_MS)}]

\* (variant: the pending write of the category is left to run)
resetProgressKeepsPending(ls, pw, T, c) ==
    [localStorage |-> [ls EXCEPT !.progress[c] = NoProgressEntry],
     pendingWrites |-> pw,
     timers |-> T]

\* resetProgressForCategory(categoryId)
resetProgressForCategory(ls, pw, T, c) ==
    [localStorage |-> [ls EXCEPT !.progress[c] = NoProgressEntry],
     pendingWrites |-> [pw EXCEPT ![c] = NoProgress],
     timers |-> T \ ProgressTimers(T, c)]

----------------------------------------------------------------------------
(* flashcards and quizStatsStorage.  Category names, identifiers and card
   keys are sequences of characters, so that slugify and startsWith are
   computed on the text. *)

WordChars == {"a", "c", "x", "y", "_"}
SpaceChars == {" "}

\* String.prototype.toLowerCase on the letters of the deck
Lowered(ch) == IF ch = "A" THEN "a" ELSE IF ch = "C" THEN "c" ELSE ch
toLowerCase(str) == [i \in 1..Len(str) |-> Lowered(str[i])]

RECURSIVE TrimStart(_, _), TrimEnd(_, _), CollapseRuns(_)
TrimStart(str, chars) ==
    IF str # <<>> /\ Head(str) \in chars THEN TrimStart(Tail(str), chars) ELSE str
TrimEnd(str, chars) ==
    IF str # <<>> /\ str[Len(str)] \in chars
    THEN TrimEnd(SubSeq(str, 1, Len(str) - 1), chars) ELSE str
\* replace(/[\s_-]+/g, '-')
CollapseRuns(str) ==
    IF str = <<>> THEN <<>>
    ELSE IF Head(str) \in SpaceChars \union {"_", "-"}
    THEN <<"-">> \o CollapseRuns(TrimStart(str, SpaceChars \union {"_", "-"}))
    ELSE <<Head(str)>> \o CollapseRuns(Tail(str))

slugify(str) ==
    LET trimmed == TrimEnd(TrimStart(toLowerCase(str), SpaceChars), SpaceChars)
        kept == SelectSeq(trimmed,
                    LAMBDA ch : ch \in WordChars \union SpaceChars \union {"-"})
    IN TrimEnd(TrimStart(CollapseRuns(kept), {"-"}), {"-"})

Flashcard(category, german) == [category |-> category, german |-> german]

\* the deck: two cards of a category named "A c", one of a category named "xy"
flashcards ==
    {Flashcard(<<"A", " ", "c">>, <<"x">>), Flashcard(<<"A", " ", "c">>, <<"y">>),
     Flashcard(<<"x", "y">>, <<"x">>)}

getCategories == {[id |-> slugify(card.category), label |-> card.category] : card \in flashcards}

getFlashcardsForCategory(categoryId) ==
    {card \in flashcards :
        \E cat \in getCategories : cat.id = categoryId /\ card.category = cat.label}

startsWith(str, prefix) ==
    Len(str) >= Len(prefix) /\ SubSeq(str, 1, Len(prefix)) = prefix

generateCardKey(categoryId, german) == categoryId \o <<"|">> \o german
getCardId(card) == card.category \o <<":", ":">> \o card.german

\* the cards of the lesson of category "a-c", in the order of the deck
CardNames == <<"x", "y", "z", "w">>
LessonCategory == <<"A", " ", "c">>
LessonCard(i) == Flashcard(LessonCategory, <<CardNames[i + 1]>>)

\* QuizStat (legacy) and QuizCardStats (v2)
QuizStat(total, correct, last, seen) ==
    [totalAttempts |-> total, correctCount |-> correct, lastResult |-> last,
     lastSeen |-> seen]
QuizCardStats(id, streak, incorrect, seen) ==
    [cardId |-> id, correctStreak |-> streak, incorrectCount |-> incorrect,
     lastSeen |-> seen]

\* the entry under a statistics key: no entry, or the text of a map.  The
\* entries the application writes pass the validation of the loaders.
StatsEntry(kind, map) == [kind |-> kind, map |-> map]
NoStats == StatsEntry("absent", <<>>)

loadQuizStatsFromStorage(ls) == IF ls.quizStats.kind = "absent" THEN <<>> ELSE ls.quizStats.map
loadQuizStats(ls) == IF ls.quizStatsV2.kind = "absent" THEN <<>> ELSE ls.quizStatsV2.map

\* (fewer than MAX_STATS_SIZE entries: nothing is trimmed)
saveQuizStats(ls, stats) == [ls EXCEPT !.quizStats = StatsEntry("object", stats)]
saveQuizStatsV2(ls, stats) == [ls EXCEPT !.quizStatsV2 = StatsEntry("object", stats)]

\* stats with the entry of key set to stat
WithStat(stats, key, stat) ==
    [k \in DOMAIN stats \union {key} |-> IF k = key THEN stat ELSE stats[k]]
Without(stats, keys) == [k \in DOMAIN stats \ keys |-> stats[k]]

\* updateQuizStat(cardKey, result) at time t
updateQuizStat(ls, cardKey, result, t) ==
    LET stats == loadQuizStatsFromStorage(ls)
        existingStat == IF cardKey \in DOMAIN stats THEN stats[cardKey]
                        ELSE QuizStat(0, 0, "null", 0)
        updatedStat == QuizStat(existingStat.totalAttempts + 1,
                           existingStat.correctCount + (IF result = "correct" THEN 1 ELSE 0),
                           result, t)
    IN saveQuizStats(ls, WithStat(stats, cardKey, updatedStat))

\* updateQuizStatsForAnswer(stats, card, wasCorrect) at time t: the storage
\* it leaves
updateQuizStatsForAnswer(ls, stats, card, wasCorrect, t) ==
    LET cardId == getCardId(card)
        existingStat == IF cardId \in DOMAIN stats THEN stats[cardId]
                        ELSE QuizCardStats(cardId, 0, 0, 0)
        updatedStat == QuizCardStats(cardId,
                           IF wasCorrect THEN existingStat.correctStreak + 1 ELSE 0,
                           IF wasCorrect THEN existingStat.incorrectCount
                           ELSE existingStat.incorrectCount + 1,
                           t)
    IN saveQuizStatsV2(ls, WithStat(stats, cardId, updatedStat))

\* computeCardPriority(cardStats), in halves: 2 for a card without
\* statistics, else max(0.5, 1 + incorrectCount * 2 - correctStreak)
computeCardPriority(stats, cardId) ==
    IF cardId \notin DOMAIN stats THEN 4
    ELSE Max(1, 2 + stats[cardId].incorrectCount * 4 - stats[cardId].correctStreak * 2)

\* the cumulative weight of the cards 0..i of the lesson, in halves
RECURSIVE CumulativeWeight(_, _)
CumulativeWeight(stats, i) ==
    IF i < 0 THEN 0
    ELSE CumulativeWeight(stats, i - 1) + computeCardPriority(stats, getCardId(LessonCard(i)))

\* chooseNextQuizCardIndex(cards, stats) for the n cards of the lesson: the
\* indices it can return.  Math.random() * totalWeight is any multiple of a
\* quarter in [0, totalWeight); the first index whose cumulative weight
\* reaches it is returned.
chooseNextQuizCardIndex(n, stats) ==
    LET totalWeight == CumulativeWeight(stats, n - 1)
        Reached(random) == {i \in 0..(n - 1) : random <= 2 * CumulativeWeight(stats, i)}
    IN IF n = 0 THEN {0}
       ELSE IF totalWeight = 0 THEN 0..(n - 1)
       ELSE {IF Reached(random) = {} THEN n - 1
             ELSE CHOOSE i \in Reached(random) : \A j \in Reached(random) : i <= j :
                random \in 0..(2 * totalWeight - 1)}

\* resetQuizStatsForCategory(categoryId): the storage it leaves
resetQuizStatsForCategory(ls, categoryId) ==
    LET legacyStats == loadQuizStatsFromStorage(ls)
        legacyPrefix == categoryId \o <<"|">>
        filteredLegacyStats ==
            Without(legacyStats, {k \in DOMAIN legacyStats : startsWith(k, legacyPrefix)})
        v2Stats == loadQuizStats(ls)
        v2Prefix == categoryId \o <<":", ":">>
        filteredV2Stats ==
            Without(v2Stats, {k \in DOMAIN v2Stats : startsWith(k, v2Prefix)})
        afterLegacy == IF DOMAIN filteredLegacyStats # {}
                       THEN saveQuizStats(ls, filteredLegacyStats)
                       ELSE [ls EXCEPT !.quizStats = NoStats]
    IN IF DOMAIN filteredV2Stats # {}
       THEN saveQuizStatsV2(afterLegacy, filteredV2Stats)
       ELSE [afterLegacy EXCEPT !.quizStatsV2 = NoStats]

\* the storage of a browser that never ran the application
InitialStorage ==
    [gestureCalibration |-> NoEntry,
     unavailable |-> FALSE,
     progress |-> [c \in Categories |-> NoProgressEntry],
     quizStats |-> NoStats,
     quizStatsV2 |-> NoStats]

----------------------------------------------------------------------------
(* actionDispatcher *)

cooldownMs == 1000
repeatPreventionMs == 300
maxLogEntries == 5

ActionType == {"NEXT", "PREV", "SELECT", "REST"}
Source == {"gesture", "keyboard"}
NoAction == "null"

InitialDispatcherState ==
    [lastActionTime |-> 0, lastActionType |-> NoAction, actionLog |-> <<>>]

\* (variant: the oldest entry of a full log is not evicted)
AcceptedNoShift(st, t, action, source) ==
    [dispatched |-> TRUE, reason |-> "none",
     state |-> [lastActionTime |-> t,
                lastActionType |-> action,
                actionLog |-> Append(st.actionLog,
                                     [action |-> action, timestamp |-> t, source |-> source])]]

\* (variant: the time of the accepted action is not recorded)
AcceptedNoTime(st, t, action, source) ==
    LET pushed == Append(st.actionLog,
                         [action |-> action, timestamp |-> t, source |-> source])
    IN [dispatched |-> TRUE, reason |-> "none",
        state |-> [lastActionTime |-> st.lastActionTime,
                   lastActionType |-> action,
                   actionLog |-> IF Len(pushed) > maxLogEntries
                                 THEN Tail(pushed) ELSE pushed]]

Accepted(st, t, action, source) ==
    LET pushed == Append(st.actionLog,
                         [action |-> action, timestamp |-> t, source |-> source])
    IN [dispatched |-> TRUE, reason |-> "none",
        state |-> [lastActionTime |-> t,
                   lastActionType |-> action,
                   actionLog |-> IF Len(pushed) > maxLogEntries
                                 THEN Tail(pushed) ELSE pushed]]

Refused(st, why) == [dispatched |-> FALSE, reason |-> why, state |-> st]

\* (variant: the cooldown applies only to a repeat of the last action)
dispatchCooldownOnRepeatOnly(st, t, action, source, isFlipping) ==
    LET timeSinceLastAction == t - st.lastActionTime
    IN IF isFlipping THEN Refused(st, "flip_animation")
       ELSE IF action = st.lastActionType /\ timeSinceLastAction < cooldownMs
       THEN Refused(st, "cooldown")
       ELSE Accepted(st, t, action, source)

\* (variant: the cooldown rule is tested before the flip lock)
dispatchCooldownFirst(st, t, action, source, isFlipping) ==
    LET timeSinceLastAction == t - st.lastActionTime
    IN IF timeSinceLastAction < cooldownMs THEN Refused(st, "cooldown")
       ELSE IF isFlipping THEN Refused(st, "flip_animation")
       ELSE IF action = st.lastActionType /\ action # "REST"
               /\ timeSinceLastAction < repeatPreventionMs
       THEN Refused(st, "repeat_prevention")
       ELSE Accepted(st, t, action, source)

\* (variant: a call refused for cooldown starts the cooldown anew)
dispatchRefusalRestarts(st, t, action, source, isFlipping) ==
    LET timeSinceLastAction == t - st.lastActionTime
    IN IF isFlipping THEN Refused(st, "flip_animation")
       ELSE IF timeSinceLastAction < cooldownMs
       THEN Refused([st EXCEPT !.lastActionTime = t], "cooldown")
       ELSE IF action = st.lastActionType /\ action # "REST"
               /\ timeSinceLastAction < repeatPreventionMs
       THEN Refused(st, "repeat_prevention")
       ELSE Accepted(st, t, action, source)

\* (variant: the repeat-prevention rule is tested before the cooldown)
dispatchRepeatFirst(st, t, action, source, isFlipping) ==
    LET timeSinceLastAction == t - st.lastActionTime
    IN IF isFlipping THEN Refused(st, "flip_animation")
       ELSE IF action = st.lastActionType /\ action # "REST"
               /\ timeSinceLastAction < repeatPreventionMs
       THEN Refused(st, "repeat_prevention")
       ELSE IF timeSinceLastAction < cooldownMs THEN Refused(st, "cooldown")
       ELSE Accepted(st, t, action, source)

\* dispatch(action, source, isFlipping) at Date.now() = t on state st:
\* the returned ActionDispatchResult and the state it leaves.
dispatch(st, t, action, source, isFlipping) ==
    LET timeSinceLastAction == t - st.lastActionTime
    IN IF isFlipping THEN Refused(st, "flip_animation")
       ELSE IF timeSinceLastAction < cooldownMs THEN Refused(st, "cooldown")
       ELSE IF action = st.lastActionType /\ action # "REST"
               /\ timeSinceLastAction < repeatPreventionMs
       THEN Refused(st, "repeat_prevention")
       ELSE Accepted(st, t, action, source)

\* reset()
\* (variant: reset() leaves lastActionTime as it is)
resetKeepsTime(st) ==
    [lastActionTime |-> st.lastActionTime, lastActionType |-> NoAction, actionLog |-> <<>>]

reset(st) == InitialDispatcherState

\* What the last dispatch call was, what it saw and what it returned.
NoResult ==
    [called |-> FALSE, action |-> "REST", source |-> "gesture", isFlipping |-> FALSE,
     at |-> 0, prevTime |-> 0, prevType |-> NoAction,
     dispatched |-> FALSE, reason |-> "none"]

ResultOf(st, t, action, source, isFlipping) ==
    LET r == dispatch(st, t, action, source, isFlipping)
    IN [called |-> TRUE, action |-> action, source |-> source,
        isFlipping |-> isFlipping, at |-> t,
        prevTime |-> st.lastActionTime, prevType |-> st.lastActionType,
        dispatched |-> r.dispatched, reason |-> r.reason]

----------------------------------------------------------------------------
(* Timers of the page: setTimeout callbacks that have not run yet *)

DebounceTimer(at) == [kind |-> "debounce", at |-> at]
FlipTimer(at) == [kind |-> "flip", at |-> at]
\* value of a timer ref that holds no timer
NoTimer == 0

----------------------------------------------------------------------------
(* poseContext: PoseProvider *)

THROTTLE_MS == 66
DEBOUNCE_MS == 150

InitialPose ==
    [currentGesture |-> "REST",
     lastUpdateTimeRef |-> 0,
     rafIdRef |-> FALSE,
     debounceTimerRef |-> NoTimer,
     pendingGestureRef |-> NoGesture,
     lastGestureRef |-> "REST"]

\* (variant: the pending debounce timer is not cleared)
setGestureNoClear(P, T, g, t) ==
    [pose |-> [P EXCEPT !.pendingGestureRef = g,
                        !.debounceTimerRef = t + DEBOUNCE_MS],
     timers |-> T \cup {DebounceTimer(t + DEBOUNCE_MS)}]

\* setGesture(g) at time t: clearTimeout, store the candidate, setTimeout
setGesture(P, T, g, t) ==
    [pose |-> [P EXCEPT !.pendingGestureRef = g,
                        !.debounceTimerRef = t + DEBOUNCE_MS],
     timers |-> (T \ {DebounceTimer(P.debounceTimerRef)})
                    \cup {DebounceTimer(t + DEBOUNCE_MS)}]

\* (variant: a candidate equal to the last emitted gesture is emitted again)
DebounceCallbackNoChangeTest(P, t) ==
    LET gestureToSet == P.pendingGestureRef
    IN IF gestureToSet = NoGesture THEN P
       ELSE [P EXCEPT !.lastUpdateTimeRef = t,
                      !.lastGestureRef = gestureToSet,
                      !.currentGesture = gestureToSet,
                      !.pendingGestureRef = NoGesture]

\* The callback of the debounce timer, run at time t.
DebounceCallback(P, t) ==
    LET gestureToSet == P.pendingGestureRef
        timeSinceLastUpdate == t - P.lastUpdateTimeRef
    IN IF gestureToSet = NoGesture THEN P
       ELSE IF gestureToSet = P.lastGestureRef
       THEN [P EXCEPT !.pendingGestureRef = NoGesture]
       ELSE IF timeSinceLastUpdate >= THROTTLE_MS
       THEN [P EXCEPT !.lastUpdateTimeRef = t,
                      !.lastGestureRef = gestureToSet,
                      !.currentGesture = gestureToSet,
                      !.pendingGestureRef = NoGesture]
       ELSE [P EXCEPT !.rafIdRef = TRUE]

\* the callback run at time t leaves the candidate to an animation frame
Deferred(P, t) ==
    /\ P.pendingGestureRef # NoGesture
    /\ P.pendingGestureRef # P.lastGestureRef
    /\ t - P.lastUpdateTimeRef < THROTTLE_MS

RafTimer(at) == [kind |-> "raf", at |-> at]

\* time from requestAnimationFrame to its callback: the next frame of a
\* 60 Hz display, or a later one
FrameDelays == {16, 80}

\* the timers after a debounce callback that ran at time t with the timers T
\* left: cancelAnimationFrame and requestAnimationFrame, d being the delay
Scheduled(T, P, t, d) ==
    IF Deferred(P, t)
    THEN {tm \in T : tm.kind # "raf"} \cup {RafTimer(t + d)}
    ELSE T

\* The callback of the animation frame, run at time t.
RafCallback(P, t) ==
    IF t - P.lastUpdateTimeRef >= THROTTLE_MS
    THEN [P EXCEPT !.lastUpdateTimeRef = t,
                   !.lastGestureRef = P.pendingGestureRef,
                   !.currentGesture = P.pendingGestureRef,
                   !.pendingGestureRef = NoGesture,
                   !.rafIdRef = FALSE]
    ELSE P

\* the callback made a setCurrentGesture call
Emitted(P, Q) == Q.lastUpdateTimeRef # P.lastUpdateTimeRef

----------------------------------------------------------------------------
(* CameraFeed: temporal smoothing *)

MAX_HISTORY_LENGTH == 7
MIN_HISTORY_LENGTH == 4

Count(history, g) == Cardinality({i \in 1..Len(history) : history[i] = g})

\* the loop over Object.entries(counts), from entry i on
RECURSIVE MajorityFrom(_, _, _, _)
MajorityFrom(history, i, majorityGesture, maxCount) ==
    IF i > Len(ALL_GESTURES) THEN majorityGesture
    ELSE IF Count(history, ALL_GESTURES[i]) > maxCount
    THEN MajorityFrom(history, i + 1, ALL_GESTURES[i], Count(history, ALL_GESTURES[i]))
    ELSE MajorityFrom(history, i + 1, majorityGesture, maxCount)

\* the vote of computeMajorityGesture when its cache does not answer
CountMajority(history) ==
    IF Len(history) = 0 THEN NoGesture
    ELSE MajorityFrom(history, 1, "REST", 0)

\* lastHistory and lastResult of computeMajorityGesture before its first call
NoMemo == [lastHistory |-> <<>>, lastResult |-> NoGesture]

\* (variant: the cache answers when the history has the length it had)
MemoHitByLength(memo, history) == Len(history) = Len(memo.lastHistory)

\* the quick check: the history has the content it had at the last call
MemoHit(memo, history) ==
    /\ Len(history) = Len(memo.lastHistory)
    /\ \A i \in 1..Len(history) : history[i] = memo.lastHistory[i]

\* computeMajorityGesture(history) with the cache memo: its result and the
\* cache it leaves
computeMajorityGesture(memo, history) ==
    IF MemoHit(memo, history) THEN [result |-> memo.lastResult, memo |-> memo]
    ELSE IF Len(history) = 0 THEN [result |-> NoGesture, memo |-> NoMemo]
    ELSE [result |-> CountMajority(history),
          memo |-> [lastHistory |-> history, lastResult |-> CountMajority(history)]]

\* (variant: the oldest entry of a full history is not shifted out)
PushedNoShift(history, g) == Append(history, g)

\* gestureHistoryRef after the push and the shift
Pushed(history, g) ==
    IF Len(Append(history, g)) > MAX_HISTORY_LENGTH
    THEN Tail(Append(history, g)) ELSE Append(history, g)

\* the candidate processPoseResults passes to setGesture, or NoGesture
Candidate(history, currentGestureRef, memo) ==
    IF Len(history) >= MIN_HISTORY_LENGTH
    THEN LET majorityGesture == computeMajorityGesture(memo, history).result
         IN IF majorityGesture # NoGesture /\ majorityGesture # currentGestureRef
            THEN majorityGesture ELSE NoGesture
    ELSE NoGesture

TARGET_FPS == 30

\* globalPendingResults: null, or a pose result (its number in the stream
\* and its landmarks)
NoPending == [id |-> 0, f |-> <<>>]
PoseResult(id, f) == [id |-> id, f |-> f]

\* the animation frame requested by the results callback, with its handle
FrameTimer(at, handle) == [kind |-> "frame", at |-> at, handle |-> handle]

InitialCamera ==
    [mounted |-> TRUE, gestureHistoryRef |-> <<>>, currentGestureRef |-> "REST",
     memo |-> NoMemo,
     globalRafId |-> 0, globalPendingResults |-> NoPending, globalLastFrameTime |-> 0]

\* The throttle of the results callback on result r at time t, with the
\* module in C and the timers T, without the test of globalRafId: a frame
\* is requested for every throttled result.
onResultsNoGuard(C, T, r, t, handle, d) ==
    IF TARGET_FPS * (t - C.globalLastFrameTime) >= 1000
    THEN [camera |-> [C EXCEPT !.globalLastFrameTime = t,
                               !.globalPendingResults = NoPending],
          timers |-> T, process |-> r]
    ELSE [camera |-> [C EXCEPT !.globalPendingResults = r, !.globalRafId = handle],
          timers |-> T \cup {FrameTimer(t + d, handle)},
          process |-> NoPending]

\* The throttle of the results callback on result r at time t, with the
\* module in C and the timers T: r is processed at once (process), or kept
\* for the animation frame, which is requested with the given handle and
\* runs after d ms when none is pending.
onResults(C, T, r, t, handle, d) ==
    IF TARGET_FPS * (t - C.globalLastFrameTime) >= 1000
    THEN [camera |-> [C EXCEPT !.globalLastFrameTime = t,
                               !.globalPendingResults = NoPending],
          timers |-> T, process |-> r]
    ELSE IF C.globalRafId = 0
    THEN [camera |-> [C EXCEPT !.globalPendingResults = r, !.globalRafId = handle],
          timers |-> T \cup {FrameTimer(t + d, handle)},
          process |-> NoPending]
    ELSE [camera |-> [C EXCEPT !.globalPendingResults = r],
          timers |-> T, process |-> NoPending]

\* the callback of the animation frame at time t
onAnimationFrame(C, t) ==
    IF C.globalPendingResults # NoPending /\ C.mounted
    THEN [camera |-> [C EXCEPT !.globalLastFrameTime = t,
                               !.globalPendingResults = NoPending,
                               !.globalRafId = 0],
          process |-> C.globalPendingResults]
    ELSE [camera |-> [C EXCEPT !.globalRafId = 0], process |-> NoPending]

\* keys of the keyboard gesture simulation
CameraKeys == {"r", "n", "p", "s"}

keyToGesture ==
    [k \in CameraKeys |->
        CASE k = "r" -> "REST" [] k = "n" -> "NEXT" [] k = "p" -> "PREV" [] OTHER -> "SELECT"]

----------------------------------------------------------------------------
(* LessonPage *)

FLIP_MS == 400

InitialLesson ==
    [currentIndex |-> 0,
     isComplete |-> FALSE,
     showSummary |-> FALSE,
     showTranslation |-> FALSE,
     isFlipping |-> FALSE,
     previousGestureRef |-> "REST",
     mode |-> "learn",
     answerFeedback |-> "null"]

\* The state updates of an accepted NEXT, PREV or SELECT, with a NEXT that
\* does not test for the last card.
NavigateNoBound(L, action) ==
    CASE action = "NEXT" ->
            [L EXCEPT !.currentIndex = @ + 1, !.showTranslation = FALSE]
      [] action = "PREV" ->
            IF L.currentIndex <= 0 THEN L
            ELSE [L EXCEPT !.currentIndex = @ - 1, !.showTranslation = FALSE]
      [] action = "SELECT" ->
            [L EXCEPT !.showTranslation = ~@, !.isFlipping = TRUE]
      [] OTHER -> L

\* The state updates of an accepted NEXT, PREV or SELECT.
Navigate(L, action) ==
    CASE action = "NEXT" ->
            IF L.currentIndex >= DeckSize - 1
            THEN [L EXCEPT !.isComplete = TRUE, !.showSummary = TRUE]
            ELSE [L EXCEPT !.currentIndex = @ + 1, !.showTranslation = FALSE]
      [] action = "PREV" ->
            IF L.currentIndex <= 0 THEN L
            ELSE [L EXCEPT !.currentIndex = @ - 1, !.showTranslation = FALSE]
      [] action = "SELECT" ->
            [L EXCEPT !.showTranslation = ~@, !.isFlipping = TRUE]
      [] OTHER -> L

\* The gesture effect without the assignment of previousGestureRef after a
\* refused dispatch.
GestureEffectKeepsRef(L, D, cur, t) ==
    LET isGestureChange ==
            /\ L.previousGestureRef # cur
            /\ L.previousGestureRef \in {"REST", "SELECT"}
        r == dispatch(D, t, cur, "gesture", L.isFlipping)
    IN IF L.isComplete
       THEN [lesson |-> L, state |-> D, called |-> FALSE, accepted |-> FALSE,
             result |-> NoResult]
       ELSE IF isGestureChange /\ cur # "REST"
       THEN [lesson |-> IF r.dispatched
                        THEN [Navigate(L, cur) EXCEPT !.previousGestureRef = cur]
                        ELSE L,
             state |-> r.state, called |-> TRUE, accepted |-> r.dispatched,
             result |-> ResultOf(D, t, cur, "gesture", L.isFlipping)]
       ELSE [lesson |-> [L EXCEPT !.previousGestureRef = cur],
             state |-> D, called |-> FALSE, accepted |-> FALSE, result |-> NoResult]

\* The gesture effect of the lesson page, run at time t with currentGesture
\* cur: the lesson state, the dispatcher state and the dispatch call it made.
GestureEffect(L, D, cur, t) ==
    LET isGestureChange ==
            /\ L.previousGestureRef # cur
            /\ L.previousGestureRef \in {"REST", "SELECT"}
        r == dispatch(D, t, cur, "gesture", L.isFlipping)
    IN IF L.isComplete
       THEN [lesson |-> L, state |-> D, called |-> FALSE, accepted |-> FALSE,
             result |-> NoResult]
       ELSE IF isGestureChange /\ cur # "REST"
       THEN [lesson |-> [(IF r.dispatched THEN Navigate(L, cur) ELSE L)
                            EXCEPT !.previousGestureRef = cur],
             state |-> r.state, called |-> TRUE, accepted |-> r.dispatched,
             result |-> ResultOf(D, t, cur, "gesture", L.isFlipping)]
       ELSE [lesson |-> [L EXCEPT !.previousGestureRef = cur],
             state |-> D, called |-> FALSE, accepted |-> FALSE, result |-> NoResult]

\* keys of the lesson page
LessonKeys == {"ArrowRight", "n", "ArrowLeft", "p", " ", "s", "r"}

keyToAction ==
    [k \in LessonKeys |->
        CASE k \in {"ArrowRight", "n"} -> "NEXT"
          [] k \in {"ArrowLeft", "p"} -> "PREV"
          [] k \in {" ", "s"} -> "SELECT"
          [] OTHER -> "REST"]

\* The keydown handler of the lesson page.
KeyHandler(L, D, key, t) ==
    LET action == keyToAction[key]
        r == dispatch(D, t, action, "keyboard", L.isFlipping)
    IN IF L.isComplete
       THEN [lesson |-> L, state |-> D, called |-> FALSE, accepted |-> FALSE,
             result |-> NoResult]
       ELSE IF action = "REST"
       THEN [lesson |-> [L EXCEPT !.showTranslation = FALSE],
             state |-> D, called |-> FALSE, accepted |-> FALSE, result |-> NoResult]
       ELSE [lesson |-> IF r.dispatched THEN Navigate(L, action) ELSE L,
             state |-> r.state, called |-> TRUE, accepted |-> r.dispatched,
             result |-> ResultOf(D, t, action, "keyboard", L.isFlipping)]

\* The camera feed is rendered by the lesson view and not by the summary:
\* it unmounts with the summary and mounts anew, with an empty history, after.
CameraAfterRender(C, L, P) ==
    IF L.showSummary
    THEN [mounted |-> FALSE, gestureHistoryRef |-> <<>>,
          currentGestureRef |-> P.currentGesture, memo |-> C.memo,
          globalRafId |-> 0, globalPendingResults |-> NoPending,
          globalLastFrameTime |-> C.globalLastFrameTime]
    ELSE IF ~C.mounted
    THEN [mounted |-> TRUE, gestureHistoryRef |-> <<>>,
          currentGestureRef |-> P.currentGesture, memo |-> C.memo,
          globalRafId |-> C.globalRafId,
          globalPendingResults |-> C.globalPendingResults,
          globalLastFrameTime |-> C.globalLastFrameTime]
    ELSE [C EXCEPT !.currentGestureRef = P.currentGesture]

\* the cleanup of the camera feed cancels the animation frame it requested
CancelFrame(T, L) ==
    IF L.showSummary THEN {tm \in T : tm.kind # "frame"} ELSE T

\* an accepted SELECT started a flip: setTimeout(() => setIsFlipping(false), 400)
FlipStarted(L, M) == M.isFlipping /\ M.showTranslation # L.showTranslation

----------------------------------------------------------------------------
(* Sample inputs of the classifier *)

ShoulderX == {500}
ShoulderY == {0, 500}
WristX == {0, 400, 600}
WristY == {0, 500, 1000}

Geometries ==
    {Frame(33, Landmark(sx1, sy1, 1000), Landmark(sx2, sy2, 1000),
               Landmark(wx1, wy1, 1000), Landmark(wx2, wy2, 1000)) :
        sx1 \in ShoulderX, sy1 \in ShoulderY, sx2 \in ShoulderX, sy2 \in ShoulderY,
        wx1 \in WristX, wy1 \in WristY, wx2 \in WristX, wy2 \in WristY}

\* ways a frame can be damaged: too short, a hole, a visibility value
Defects == {<<k, 0>> : k \in {"none", "short", "empty", "novis", "edge"}}
    \cup {<<k, i>> : k \in {"hole", "lowvis"}, i \in ConsumedIndices}

ApplyDefect(g, d) ==
    CASE d[1] = "none" -> g
      [] d[1] = "short" -> [g EXCEPT !.len = MinLandmarks - 1]
      [] d[1] = "empty" -> [g EXCEPT !.len = 0]
      [] d[1] = "novis" ->
            [g EXCEPT !.lm = [i \in ConsumedIndices |->
                                [g.lm[i] EXCEPT !.visibility = NoVisibility]]]
      [] d[1] = "edge" ->
            [g EXCEPT !.len = MinLandmarks,
                      !.lm = [i \in ConsumedIndices |->
                                [g.lm[i] EXCEPT !.visibility = MIN_VISIBILITY]]]
      [] d[1] = "hole" -> [g EXCEPT !.lm[d[2]] = MissingLandmark]
      [] OTHER -> [g EXCEPT !.lm[d[2]].visibility = MIN_VISIBILITY - 1]

SampleFrames == {ApplyDefect(g, d) : g \in Geometries, d \in Defects}

SampleSensitivities == {0, DefaultSensitivity, 50, 100}

\* Frames of a lesson, classified with the default sensitivity: the right
\* wrist right of the right shoulder, the wrists out of view, the left wrist
\* left of the left shoulder with the right wrist far across.
PrevFrame ==
    Frame(33, Landmark(600, 400, 1000), Landmark(400, 400, 1000),
              Landmark(650, 600, 1000), Landmark(600, 400, 1000))
RestFrame ==
    Frame(33, Landmark(600, 400, 1000), Landmark(400, 400, 1000),
              Landmark(650, 900, 200), Landmark(350, 900, 200))
NextFrame ==
    Frame(33, Landmark(600, 400, 1000), Landmark(600, 400, 1000),
              Landmark(300, 400, 1000), Landmark(100, 400, 1000))
StreamFrames == {PrevFrame, RestFrame}
LessonFrames == {PrevFrame, RestFrame, NextFrame}

\* {dyRight, dyLeft} of a landmark frame, in thousandths: arms down, and both
\* wrists above the shoulders
SampleDeltas ==
    {[dyRight |-> -200, dyLeft |-> -200], [dyRight |-> 100, dyLeft |-> 80]}

\* entries found under the key gestureCalibration
StoredEntries ==
    {NoEntry,
     StoredEntry("empty", NoObject),
     StoredEntry("unparsable", NoObject),
     StoredEntry("null", NoObject),
     StoredEntry("number", NoObject),
     StoredEntry("array", NoObject),
     StoredEntry("object", JsonObject(JsonNumber(300), JsonNumber(280),
                                      JsonNumber(220), JsonUndefined)),
     StoredEntry("object", JsonObject(JsonString, JsonNumber(280),
                                      JsonNumber(220), JsonBoolean(TRUE))),
     StoredEntry("object", JsonObject(JsonNumber(300), JsonNumber(280),
                                      JsonNumber(220), JsonNumber(1))),
     Stringified(Calibration(TRUE, 300, 280, 220)),
     Stringified(Calibration(FALSE, 300, 280, 220)),
     Stringified(Calibration(TRUE, 0, 10, 0))}

SampleCalibrations ==
    {NoCalibration,
     Calibration(FALSE, 300, 280, 220),
     Calibration(TRUE, 300, 280, 220),
     Calibration(TRUE, 0, 10, 0)}

----------------------------------------------------------------------------
(* CalibrationModal *)

CALIBRATION_DURATION_MS == 2000
\* delay of the timeout that moves to the next step
StepDelayMs == 500
\* period of countdownInterval
CountdownPeriodMs == 1000

\* keys of STEPS, in order
STEPS == <<"rest", "right", "left", "both">>
CaptureKeys == {STEPS[i] : i \in 1..Len(STEPS)}
StepIndex(k) == CHOOSE i \in 1..Len(STEPS) : STEPS[i] = k

\* pending timers of the modal; a step timer is named after the step it sets
CountdownTimer(at) == [kind |-> "countdown", at |-> at]
CollectionTimer(at) == [kind |-> "collection", at |-> at]
StepTimer(k, at) == [kind |-> k, at |-> at]

\* allStepDataRef: per step an average {dyRight, dyLeft} in thousandths, or
\* no entry
NoAverage == [isSet |-> FALSE, dyRight |-> 0, dyLeft |-> 0]
NoStepData == [k \in CaptureKeys |-> NoAverage]

\* countdown is kept in tenths of a second; countdownUpdates counts the
\* countdownUpdate intervals started so far, none of which is ever cleared
InitialModal ==
    [isOpen |-> FALSE,
     currentStep |-> "rest",
     countdown |-> 0,
     isCollecting |-> FALSE,
     error |-> FALSE,
     collectedDeltasRef |-> <<>>,
     landmarksCallbackRef |-> FALSE,
     allStepDataRef |-> NoStepData,
     countdownUpdates |-> 0]

\* the step effect after a render that changed isOpen or currentStep: the
\* cleanup of the previous run of the effect, then startStep if the modal is
\* open on a capture step
StepEffect(M, T, t) ==
    LET cleared == {tm \in T : tm.kind \notin {"countdown", "collection"}}
    IN IF M.isOpen /\ M.currentStep \in CaptureKeys
       THEN [modal |-> [M EXCEPT !.landmarksCallbackRef = FALSE,
                                 !.collectedDeltasRef = <<>>,
                                 !.countdown = 30],
             timers |-> cleared \union {CountdownTimer(t + CountdownPeriodMs)}]
       ELSE [modal |-> [M EXCEPT !.landmarksCallbackRef = FALSE],
             timers |-> cleared]

\* the value the updater of countdownInterval reads: every countdownUpdate
\* interval has taken a tenth off it ten times since the last period, not
\* below 0
CountdownRead(M) == Max(0, M.countdown - 10 * M.countdownUpdates)

RECURSIVE SumRight(_), SumLeft(_)
SumRight(deltas) ==
    IF deltas = <<>> THEN 0 ELSE Head(deltas).dyRight + SumRight(Tail(deltas))
SumLeft(deltas) ==
    IF deltas = <<>> THEN 0 ELSE Head(deltas).dyLeft + SumLeft(Tail(deltas))

\* avgDyRight and avgDyLeft of a window (the samples of a window of the
\* model are equal, so the division is exact)
Average(deltas) ==
    [isSet |-> TRUE,
     dyRight |-> SumRight(deltas) \div Len(deltas),
     dyLeft |-> SumLeft(deltas) \div Len(deltas)]

hasAllSteps(stepData) == \A k \in CaptureKeys : stepData[k].isSet

\* (variant: a negative delta is not raised to 0)
ThresholdsUnclamped(stepData) ==
    Calibration(TRUE,
        stepData["right"].dyRight - stepData["rest"].dyRight,
        stepData["left"].dyLeft - stepData["rest"].dyLeft,
        Min(stepData["both"].dyRight - stepData["rest"].dyRight,
            stepData["both"].dyLeft - stepData["rest"].dyLeft))

\* the thresholds computeThresholds hands to onComplete
Thresholds(stepData) ==
    Calibration(TRUE,
        Max(0, stepData["right"].dyRight - stepData["rest"].dyRight),
        Max(0, stepData["left"].dyLeft - stepData["rest"].dyLeft),
        Max(0, Min(stepData["both"].dyRight - stepData["rest"].dyRight,
                   stepData["both"].dyLeft - stepData["rest"].dyLeft)))

\* (variant: the thresholds are saved whether or not a step is missing)
computeThresholdsSavesPartial(M, cal) ==
    [modal |-> IF hasAllSteps(M.allStepDataRef)
               THEN [M EXCEPT !.isOpen = FALSE, !.currentStep = "complete"] ELSE M,
     calibration |-> Thresholds(M.allStepDataRef),
     emitted |-> hasAllSteps(M.allStepDataRef)]

\* computeThresholds on the step data of M, the stored profile being cal
\* (calibration is the profile stored when it returns):
\* onComplete (handleCalibrationComplete of SettingsPanel) saves the
\* thresholds and closes the modal, then the step becomes complete
computeThresholds(M, cal) ==
    IF hasAllSteps(M.allStepDataRef)
    THEN [modal |-> [M EXCEPT !.isOpen = FALSE, !.currentStep = "complete"],
          calibration |-> Thresholds(M.allStepDataRef),
          emitted |-> TRUE]
    ELSE [modal |-> M, calibration |-> cal, emitted |-> FALSE]

\* (variant: the step averages survive the retry)
handleRetryKeepsData(M) ==
    [M EXCEPT !.currentStep = "rest", !.countdown = 0, !.isCollecting = FALSE,
              !.error = FALSE, !.collectedDeltasRef = <<>>]

\* the state handleRetry sets
handleRetry(M) ==
    [M EXCEPT !.currentStep = "rest", !.countdown = 0, !.isCollecting = FALSE,
              !.error = FALSE, !.collectedDeltasRef = <<>>,
              !.allStepDataRef = NoStepData]

\* (variant: the step averages survive the close)
handleCloseKeepsData(M) ==
    [M EXCEPT !.currentStep = "rest", !.countdown = 0, !.isCollecting = FALSE,
              !.error = FALSE, !.collectedDeltasRef = <<>>,
              !.landmarksCallbackRef = FALSE, !.isOpen = FALSE]

\* the state handleClose sets, onClose of SettingsPanel included
handleClose(M) ==
    [M EXCEPT !.currentStep = "rest", !.countdown = 0, !.isCollecting = FALSE,
              !.error = FALSE, !.collectedDeltasRef = <<>>,
              !.allStepDataRef = NoStepData,
              !.landmarksCallbackRef = FALSE, !.isOpen = FALSE]

\* step averages {dyRight, dyLeft}, in thousandths, and a missing entry
StepAverage(r, l) == [isSet |-> TRUE, dyRight |-> r, dyLeft |-> l]
SampleAverages ==
    {NoAverage, StepAverage(0, 0), StepAverage(300, 0), StepAverage(0, 280),
     StepAverage(250, 220), StepAverage(-200, -200)}

----------------------------------------------------------------------------
(* Initial state *)

NoEmission == [g |-> NoGesture, at |-> 0, requested |-> NoGesture, requestedAt |-> 0]

InitialMon ==
    [frames |-> 0,                 \* processed frames
     keys |-> 0,                   \* key presses
     requests |-> 0,               \* direct setGesture calls
     lead |-> 0,                   \* leading PREV frames of the stream
     phase |-> "lead",             \* lead, neutral, repeat or off
     lastMajority |-> NoGesture,   \* majority of the previous processed frame
     callsThisMajority |-> 0,      \* setGesture calls since it last changed
     lastRequested |-> NoGesture,  \* argument of the latest setGesture call
     lastRequestAt |-> 0,          \* its time
     replaced |-> NoGesture,       \* the pending candidate it replaced, if any
     emitPrev |-> NoEmission,      \* the setCurrentGesture call before the last
     emitLast |-> NoEmission,      \* the last setCurrentGesture call
     pendingKey |-> 0,             \* key press that made the pending candidate
     gestureKey |-> 0,             \* key press that made currentGesture
     navByKey |-> [k \in 1..MaxKeys |-> 0],  \* accepted dispatches per key press
     accepted |-> <<>>,            \* accepted direct dispatches since the last reset()
     pendingReset |-> FALSE,       \* reset() was called and dispatch not since
     firstSinceReset |-> FALSE,    \* the last dispatch call was the first after a reset()
     acceptedBeforeReset |-> 0,    \* lastActionTime that the last reset() cleared
     restarted |-> FALSE,          \* the lesson was restarted
     restartLeft |-> InitialDispatcherState,  \* dispatcher state the last restart left
     teardownAt |-> 0,             \* time the camera feed last unmounted or the
                                   \* lesson restarted (0: never)
     calClosed |-> <<>>,           \* steps of this calibration run that closed
                                   \* with a sample, in order
     calEmitted |-> 0,             \* profiles this run handed to onComplete
     calRetried |-> FALSE,         \* Retry was the last thing this run did
     calDiscarded |-> 0,           \* step averages the last Retry discarded
     calStepStart |-> 0,           \* time startStep last ran in this run
     calSampleStep |-> "none",     \* step of the last sample of the open window
     calSampleAfter |-> 0,         \* time from startStep to that sample
     loadTried |-> FALSE,          \* the last classification called
                                   \* loadCalibrationThresholds
     loadThrew |-> FALSE,          \* and that call threw
     loadedEntry |-> NoEntry,      \* the entry it found
     progOps |-> 0,                \* saveProgress and reset calls
     progLast |-> [op |-> "none", cat |-> "none"],  \* the last progressStorage call
     progSaved |-> NoPendingWrites,  \* per category, the data of the last
                                   \* saveProgress since the last reset
     progBursts |-> [c \in Categories |-> 0],  \* saveProgress calls that found
                                   \* no timer of the category running, less
                                   \* the bursts a reset cancelled
     progBurstLen |-> [c \in Categories |-> 0],  \* saveProgress calls of the
                                   \* last burst of the category
     progWrites |-> [c \in Categories |-> 0],  \* setItem calls
     progReset |-> [c \in Categories |-> FALSE],  \* reset and not saved since
     progCancelled |-> [c \in Categories |-> 0],  \* deadline of the write that
                                   \* reset cancelled (0: none)
     progLoaded |-> NoProgress,    \* what the last loadProgress returned, while
                                   \* progLast is that call
     sinceFrame |-> 0,             \* time since the last processed frame of
                                   \* an endless stream, up to DEBOUNCE_MS
     quizAnswers |-> 0,            \* quiz answers given
     quizReset |-> <<>>,           \* category whose statistics the last call
                                   \* reset (empty: the last call was no reset)
     heldRefused |-> NoGesture,    \* gesture whose dispatch the gesture effect
                                   \* saw refused, while currentGesture has
                                   \* not changed since (none otherwise)
     heldRerun |-> FALSE,          \* the gesture effect has run again for it
                                   \* with the cooldown expired and no flip
     retried |-> FALSE,            \* and called dispatch for it again
     attempt |-> [from |-> NoGesture, to |-> NoGesture, complete |-> FALSE],
                                   \* the last dispatch call of the gesture
                                   \* effect: currentGesture before that render
                                   \* and in it, and isComplete
     deferred |-> NoGesture,       \* candidate that a debounce callback left
                                   \* to an animation frame, not emitted and
                                   \* not replaced since
     deferredAt |-> 0,             \* time of that callback
     clockSet |-> FALSE,           \* the wall clock has been set back
     results |-> 0,                \* pose results delivered to the results callback
     rafs |-> 0,                   \* animation frames requested by it
     processed |-> [i \in 1..MaxResults |-> 0],  \* times each result was processed
     viaFrame |-> {},              \* the results an animation frame processed
     dropped |-> {},               \* the pending results a later result replaced
     frameStale |-> FALSE]         \* an animation frame processed a result that
                                   \* was not the latest delivered

InitDispatcher ==
    /\ state = InitialDispatcherState
    /\ lastResult = NoResult
    /\ calls = 0

InitClassifier ==
    /\ landmarks = ApplyDefect(CHOOSE g \in Geometries : TRUE, <<"empty", 0>>)
    /\ sensitivityFactor = DefaultSensitivity
    /\ calibration = NoCalibration
    /\ inferredGesture = NoGesture

InitUI ==
    /\ timers = {}
    /\ pose = InitialPose
    /\ camera = InitialCamera
    /\ lesson = InitialLesson
    /\ mon = InitialMon
    /\ modal = InitialModal

InitStore ==
    /\ localStorage = InitialStorage
    /\ cache = NoCache
    /\ pendingWrites = NoPendingWrites

Init ==
    /\ now = StartTime
    /\ InitDispatcher
    /\ InitClassifier
    /\ InitUI
    /\ InitStore

----------------------------------------------------------------------------
(* The clock.  A timer runs when it is due: time does not pass a deadline. *)

NextDeadline(T, t) ==
    IF T = {} THEN t ELSE CHOOSE a \in {tm.at : tm \in T} : \A tm \in T : a <= tm.at

\* the clock advances by one of steps, not beyond the horizon
Tick(steps, horizon) ==
    \E d \in steps :
        LET target == IF timers = {} THEN now + d
                      ELSE Min(now + d, NextDeadline(timers, now))
        IN /\ target > now
           /\ target <= StartTime + horizon
           /\ now' = target
           /\ UNCHANGED <<storeVars, modal, dispVars, clsVars, uiVars>>

----------------------------------------------------------------------------
(* The page: what follows a handler in the same render *)

\* The render after a handler left the provider in P, the lesson page in L,
\* the dispatcher in D and the timers in T: the gesture effect runs, an
\* accepted SELECT starts the flip timer, the camera feed follows the view.
\* The effect runs again after its own updates and then finds
\* previousGestureRef = currentGesture or isComplete, and does nothing.
Render(P, L, D, T, R, C) ==
    \E e \in {GestureEffect(L, D, P.currentGesture, now)} :
       /\ pose' = P
       /\ lesson' = e.lesson
       /\ state' = e.state
       /\ lastResult' = IF e.called THEN e.result ELSE R
       /\ timers' = CancelFrame(IF FlipStarted(L, e.lesson)
                                THEN T \cup {FlipTimer(now + FLIP_MS)} ELSE T,
                                e.lesson)
       /\ camera' = CameraAfterRender(C, e.lesson, P)

\* the observations after a debounce callback took the provider from P to Q
MonCallback(M, P, Q) ==
    IF Emitted(P, Q)
    THEN [M EXCEPT !.emitPrev = M.emitLast,
                   !.emitLast = [g |-> Q.currentGesture, at |-> Q.lastUpdateTimeRef,
                                 requested |-> M.lastRequested,
                                 requestedAt |-> M.lastRequestAt],
                   !.gestureKey = M.pendingKey,
                   !.pendingKey = 0,
                   !.deferred = NoGesture,
                   !.deferredAt = 0]
    ELSE IF Q.pendingGestureRef = NoGesture THEN [M EXCEPT !.pendingKey = 0]
    ELSE M

\* the observations after setGesture(g) was called at time t by key press
\* key (0: by no key), with the provider in P and the timers T
MonRequest(M, P, T, g, t, key) ==
    [M EXCEPT !.lastRequested = g,
              !.lastRequestAt = t,
              !.replaced = IF DebounceTimer(P.debounceTimerRef) \in T
                           THEN P.pendingGestureRef ELSE NoGesture,
              !.pendingKey = key,
              !.deferred = NoGesture,
              !.deferredAt = 0]

\* one more accepted dispatch on the account of key press k
Credit(M, k, accepted) ==
    IF accepted /\ k \in 1..MaxKeys
    THEN [M EXCEPT !.navByKey[k] = @ + 1] ELSE M

\* the observations after a render took the lesson page from L to M at time t
Teardown(Mn, L, M, t) ==
    IF ~L.showSummary /\ M.showSummary THEN [Mn EXCEPT !.teardownAt = t] ELSE Mn

\* the observations after the gesture effect ran at time t on the lesson
\* state L and the dispatcher state D with result e, currentGesture being
\* cur, and before this render was
EffectRun(Mn, L, D, e, cur, was, t) ==
    LET held == Mn.heldRefused # NoGesture /\ cur = was
        refused == IF e.called /\ ~e.accepted THEN cur
                   ELSE IF e.called \/ cur # was THEN NoGesture
                   ELSE Mn.heldRefused
    IN [Mn EXCEPT !.attempt = IF e.called
                               THEN [from |-> was, to |-> cur, complete |-> L.isComplete]
                               ELSE @,
                  !.heldRefused = refused,
                  !.retried = @ \/ (held /\ e.called),
                  !.heldRerun = /\ refused # NoGesture
                                /\ \/ @
                                   \/ /\ held
                                      /\ ~L.isComplete
                                      /\ ~L.isFlipping
                                      /\ t - D.lastActionTime >= cooldownMs]

\* the debounce timer runs its callback
DebounceFire ==
    \E tm \in timers :
        /\ tm.kind = "debounce"
        /\ tm.at <= now
        /\ \E Q \in {DebounceCallback(pose, now)} :
           \E d \in (IF Deferred(pose, now) THEN FrameDelays ELSE {0}) :
           \E e \in {GestureEffect(lesson, state, Q.currentGesture, now)} :
           \E M \in {IF Deferred(pose, now)
                     THEN [mon EXCEPT !.deferred = pose.pendingGestureRef,
                                      !.deferredAt = now]
                     ELSE MonCallback(mon, pose, Q)} :
              /\ Render(Q, lesson, state, Scheduled(timers \ {tm}, pose, now, d),
                        lastResult, camera)
              /\ mon' = EffectRun(Teardown(Credit(M, M.gestureKey, e.accepted),
                                           lesson, e.lesson, now),
                                  lesson, state, e, Q.currentGesture,
                                  pose.currentGesture, now)
        /\ UNCHANGED <<storeVars, modal, now, calls, clsVars>>

\* the animation frame runs its callback
RafFire ==
    \E tm \in timers :
        /\ tm.kind = "raf"
        /\ tm.at <= now
        /\ \E Q \in {RafCallback(pose, now)} :
           \E e \in {GestureEffect(lesson, state, Q.currentGesture, now)} :
           \E M \in {MonCallback(mon, pose, Q)} :
              /\ Render(Q, lesson, state, timers \ {tm}, lastResult, camera)
              /\ mon' = EffectRun(Teardown(Credit(M, M.gestureKey, e.accepted),
                                           lesson, e.lesson, now),
                                  lesson, state, e, Q.currentGesture,
                                  pose.currentGesture, now)
        /\ UNCHANGED <<storeVars, modal, now, calls, clsVars>>

\* the flip timer runs setIsFlipping(false)
FlipFire ==
    \E tm \in timers :
        /\ tm.kind = "flip"
        /\ tm.at <= now
        /\ LET L == [lesson EXCEPT !.isFlipping = FALSE]
               e == GestureEffect(L, state, pose.currentGesture, now)
           IN /\ Render(pose, L, state, timers \ {tm}, lastResult, camera)
              /\ mon' = EffectRun(Teardown(Credit(mon, mon.gestureKey, e.accepted),
                                           lesson, e.lesson, now),
                                  L, state, e, pose.currentGesture,
                                  pose.currentGesture, now)
        /\ UNCHANGED <<storeVars, modal, now, calls, clsVars>>

\* the stream of classified frames: PREV frames first, neutral frames after
\* them, PREV frames again
StreamAfter(M, g) ==
    CASE M.phase = "lead" /\ g = "PREV" /\ M.lead < LeadFrames ->
            [M EXCEPT !.lead = @ + 1]
      [] M.phase = "lead" /\ g = "REST" /\ M.lead = LeadFrames ->
            [M EXCEPT !.phase = "neutral"]
      [] M.phase = "neutral" /\ g = "REST" -> M
      [] M.phase \in {"neutral", "repeat"} /\ g = "PREV" -> [M EXCEPT !.phase = "repeat"]
      [] M.phase = "repeat" /\ g = "REST" -> M
      [] OTHER -> [M EXCEPT !.phase = "off"]

\* the observations after a processed frame classified g left the history h
\* and passed candidate c (or none) to setGesture
MonFrame(M, P, T, t, g, h, c, m) ==
    LET n == IF c # NoGesture THEN 1 ELSE 0
        S == IF c # NoGesture THEN MonRequest(StreamAfter(M, g), P, T, c, t, 0)
             ELSE StreamAfter(M, g)
    IN [S EXCEPT !.frames = @ + 1,
                 !.lastMajority = m,
                 !.callsThisMajority = IF m = M.lastMajority THEN @ + n ELSE n]

\* what an endless stream keeps of the observations M: the majority vote of the last frame
\* and the time since
HeldObservations(M, since) ==
    [InitialMon EXCEPT !.lastMajority = M.lastMajority, !.sinceFrame = since]

\* processPoseResults on a frame f of landmarks, of an endless stream or not,
\* with the camera feed in C, the timers T and the observations Mn
processResults(C, T, Mn, f, endless) ==
    /\ C.mounted
    /\ \E g \in {inferGestureFromLandmarks(f, sensitivityFactor, calibration)} :
       \E h \in {Pushed(C.gestureHistoryRef, g)} :
       \E v \in {computeMajorityGesture(C.memo, h)} :
       \E c \in {Candidate(h, C.currentGestureRef, C.memo)} :
       LET voted == Len(h) >= MIN_HISTORY_LENGTH
           sg == setGesture(pose, T, c, now)
       IN /\ landmarks' = f
          /\ inferredGesture' = g
          /\ camera' = [C EXCEPT !.gestureHistoryRef = h,
                                 !.memo = IF voted THEN v.memo ELSE @]
          /\ pose' = IF c # NoGesture THEN sg.pose ELSE pose
          /\ timers' = IF c # NoGesture THEN sg.timers ELSE T
          /\ \E M \in {MonFrame(Mn, pose, T, now, g, h, c,
                                 IF voted THEN v.result ELSE NoGesture)} :
                mon' = IF endless THEN HeldObservations(M, 0) ELSE M
    /\ UNCHANGED <<storeVars, modal, now, dispVars, sensitivityFactor, calibration, lesson>>

\* processPoseResults on a frame f of landmarks, of an endless stream or not
processPoseResults(f, endless) == processResults(camera, timers, mon, f, endless)

\* processPoseResults while fewer than limit frames have been processed
PoseResults(f, limit) ==
    /\ mon.frames < limit
    /\ processPoseResults(f, FALSE)

\* a keydown event: the listener of the camera feed, when it is mounted,
\* then the listener of the lesson page, when the lesson is not complete
KeyDown(key) ==
    /\ mon.keys < MaxKeys
    /\ LET id == mon.keys + 1
           simulated == camera.mounted /\ key \in CameraKeys
           sg == IF simulated THEN setGesture(pose, timers, keyToGesture[key], now)
                 ELSE [pose |-> pose, timers |-> timers]
           k == KeyHandler(lesson, state, key, now)
           e == GestureEffect(k.lesson, k.state, pose.currentGesture, now)
           T == IF FlipStarted(lesson, k.lesson)
                THEN sg.timers \cup {FlipTimer(now + FLIP_MS)} ELSE sg.timers
           M == IF simulated
                THEN MonRequest([mon EXCEPT !.keys = id, !.phase = "off"],
                                pose, timers, keyToGesture[key], now, id)
                ELSE [mon EXCEPT !.keys = id, !.phase = "off"]
       IN /\ Render(sg.pose, k.lesson, k.state, T,
                    IF k.called THEN k.result ELSE lastResult,
                    IF simulated THEN [camera EXCEPT !.gestureHistoryRef = <<>>]
                    ELSE camera)
          /\ mon' = EffectRun(Teardown(Credit(Credit(M, id, k.accepted),
                                              mon.gestureKey, e.accepted),
                                       lesson, e.lesson, now),
                              k.lesson, k.state, e, pose.currentGesture,
                              pose.currentGesture, now)
    /\ UNCHANGED <<storeVars, modal, now, calls, clsVars>>

\* the Restart Lesson button of the summary
onRestartLesson ==
    /\ lesson.showSummary
    /\ LET L == [lesson EXCEPT !.currentIndex = 0, !.isComplete = FALSE,
                               !.showSummary = FALSE, !.showTranslation = FALSE]
           e == GestureEffect(L, state, pose.currentGesture, now)
       IN /\ Render(pose, L, state, timers, lastResult, camera)
          /\ mon' = EffectRun(Teardown(Credit([mon EXCEPT !.phase = "off",
                                                          !.restarted = TRUE,
                                                          !.restartLeft = state,
                                                          !.teardownAt = now],
                                              mon.gestureKey, e.accepted),
                                       L, e.lesson, now),
                              L, state, e, pose.currentGesture,
                              pose.currentGesture, now)
    /\ UNCHANGED <<storeVars, modal, now, calls, clsVars>>

\* a direct call of setGesture, as any consumer of the context may make
RequestGesture ==
    \E g \in GestureType :
        /\ mon.requests < MaxRequests
        /\ pose' = setGesture(pose, timers, g, now).pose
        /\ timers' = setGesture(pose, timers, g, now).timers
        /\ mon' = MonRequest([mon EXCEPT !.requests = @ + 1, !.phase = "off"],
                              pose, timers, g, now, 0)
        /\ UNCHANGED <<storeVars, modal, now, dispVars, clsVars, camera, lesson>>

----------------------------------------------------------------------------
(* Unit level: the classifier applied to one frame *)

InitClassify ==
    /\ now = StartTime
    /\ InitDispatcher
    /\ landmarks \in SampleFrames
    /\ sensitivityFactor \in SampleSensitivities
    /\ calibration \in SampleCalibrations
    /\ inferredGesture = NoGesture
    /\ InitUI
    /\ InitStore

Infer ==
    /\ inferredGesture = NoGesture
    /\ inferredGesture' = inferGestureFromLandmarks(landmarks, sensitivityFactor, calibration)
    /\ UNCHANGED <<storeVars, modal, now, dispVars, landmarks, sensitivityFactor, calibration, uiVars>>

NextClassify == Infer

SpecClassify == InitClassify /\ [][NextClassify]_vars

----------------------------------------------------------------------------
(* Unit level: direct calls of one dispatcher instance *)

DispatchCall ==
    \E a \in ActionType, src \in Source, f \in BOOLEAN :
        /\ calls < MaxCalls
        /\ calls' = calls + 1
        /\ state' = dispatch(state, now, a, src, f).state
        /\ lastResult' = ResultOf(state, now, a, src, f)
        /\ UNCHANGED <<storeVars, modal, now, clsVars, uiVars>>

ResetCall ==
    /\ state' = reset(state)
    /\ lastResult' = NoResult
    /\ UNCHANGED <<storeVars, modal, now, calls, clsVars, uiVars>>

\* time between two calls of a unit-level run
DispatcherWaits == {400, 1000}

Wait ==
    \E d \in DispatcherWaits :
        /\ now + d <= MaxTime
        /\ now' = now + d
        /\ UNCHANGED <<storeVars, modal, dispVars, clsVars, uiVars>>

NextDispatcher == DispatchCall \/ ResetCall \/ Wait

SpecDispatcher == Init /\ [][NextDispatcher]_vars

----------------------------------------------------------------------------
(* Unit level: calls of one dispatcher instance that repeat inside the
   repeat-prevention window *)

\* time between two calls: inside the window of 300 ms, or a cooldown
RepeatWaits == {200, 1000}

RepeatWait ==
    \E d \in RepeatWaits :
        /\ now + d <= StartTime + RepeatTicks * 200
        /\ now' = now + d
        /\ UNCHANGED <<storeVars, modal, dispVars, clsVars, uiVars>>

NextRepeat == DispatchCall \/ RepeatWait

SpecRepeat == Init /\ [][NextRepeat]_vars

----------------------------------------------------------------------------
(* Unit level: a dispatcher instance called often enough to fill its log *)

\* action, source and isFlipping of the calls
LogInputs ==
    {<<"NEXT", "gesture", FALSE>>, <<"PREV", "keyboard", FALSE>>,
     <<"NEXT", "keyboard", TRUE>>}

LogDispatch ==
    \E in \in LogInputs :
        /\ calls < MaxLogCalls
        /\ calls' = calls + 1
        /\ state' = dispatch(state, now, in[1], in[2], in[3]).state
        /\ lastResult' = ResultOf(state, now, in[1], in[2], in[3])
        /\ mon' = [mon EXCEPT
                      !.accepted = IF dispatch(state, now, in[1], in[2], in[3]).dispatched
                                   THEN Append(@, [action |-> in[1], timestamp |-> now,
                                                   source |-> in[2]])
                                   ELSE @,
                      !.pendingReset = FALSE,
                      !.firstSinceReset = mon.pendingReset]
        /\ UNCHANGED <<storeVars, modal, now, clsVars, timers, pose, camera, lesson>>

LogReset ==
    /\ state' = reset(state)
    /\ lastResult' = NoResult
    /\ mon' = [mon EXCEPT !.accepted = <<>>,
                          !.pendingReset = TRUE,
                          !.firstSinceReset = FALSE,
                          !.acceptedBeforeReset = state.lastActionTime]
    /\ UNCHANGED <<storeVars, modal, now, calls, clsVars, timers, pose, camera, lesson>>

\* time between two calls: a cooldown
LogWaits == {1000}

LogWait ==
    \E d \in LogWaits :
        /\ now + d <= StartTime + MaxLogCalls * cooldownMs
        /\ now' = now + d
        /\ UNCHANGED <<storeVars, modal, dispVars, clsVars, uiVars>>

NextLog == LogDispatch \/ LogReset \/ LogWait

SpecLog == Init /\ [][NextLog]_vars

----------------------------------------------------------------------------
(* Unit level: direct calls of setGesture *)

\* the clock of a unit-level run: a third of the debounce delay
SchedulerSteps == {50}
SchedulerHorizon == SchedulerTicks * 50
SchedulerTick == Tick(SchedulerSteps, SchedulerHorizon)

NextScheduler == RequestGesture \/ DebounceFire \/ FlipFire \/ SchedulerTick

SpecScheduler == Init /\ [][NextScheduler]_vars

----------------------------------------------------------------------------
(* Unit level: the gesture setter under a wall clock that is set back.
   Date.now() is the time of the system clock, which an adjustment can move
   backwards; the timers of the browser run on a clock that is not. *)

\* milliseconds the system clock is set back by
ClockSteps == {100, 150}

\* the system clock is set back by d: Date.now() returns d less from now on,
\* every pending timer runs when it would have
ClockSetBack ==
    \E d \in ClockSteps :
        /\ ~mon.clockSet
        /\ now' = now - d
        /\ timers' = {[tm EXCEPT !.at = @ - d] : tm \in timers}
        /\ pose' = [pose EXCEPT !.debounceTimerRef = IF @ = NoTimer THEN @ ELSE @ - d]
        /\ mon' = [mon EXCEPT !.clockSet = TRUE]
        /\ UNCHANGED <<storeVars, modal, dispVars, clsVars, camera, lesson>>

ThrottleSteps == {50}
ThrottleHorizon == ThrottleTicks * 50
ThrottleTick == Tick(ThrottleSteps, ThrottleHorizon)

NextThrottle == RequestGesture \/ DebounceFire \/ RafFire \/ ClockSetBack \/ ThrottleTick

SpecThrottle == Init /\ [][NextThrottle]_vars

----------------------------------------------------------------------------
(* A landmark stream in front of the camera, nothing else *)

\* the stream stays in the pattern: PREV frames, neutral frames, then both
StreamResults ==
    \E f \in StreamFrames :
        /\ StreamAfter(mon, inferGestureFromLandmarks(f, sensitivityFactor, calibration)).phase
              # "off"
        /\ PoseResults(f, MaxStreamFrames)

\* the clock of a stream: frames are 50 ms apart or closer
StreamSteps == {50}
StreamHorizon == StreamTicks * 50
StreamTick == Tick(StreamSteps, StreamHorizon)

NextStream == StreamResults \/ DebounceFire \/ StreamTick

SpecStream == Init /\ [][NextStream]_vars

----------------------------------------------------------------------------
(* The results callback of the camera feed: pose results through the
   throttle of 30 per second, with the camera running *)

ThrottledFrames == {RestFrame, NextFrame}

\* pose.onResults(results) with the camera running and no landmark callback
FrameResults ==
    \E f \in ThrottledFrames, d \in FrameDelays :
        /\ mon.results < MaxResults
        /\ camera.mounted
        /\ LET id == mon.results + 1
               o == onResults(camera, timers, PoseResult(id, f), now, mon.rafs + 1, d)
               was == camera.globalPendingResults.id
               M == [mon EXCEPT !.results = id,
                                !.rafs = IF o.camera.globalRafId # camera.globalRafId
                                         THEN @ + 1 ELSE @,
                                !.dropped = IF was # 0 THEN @ \cup {was} ELSE @]
           IN IF o.process # NoPending
              THEN processResults(o.camera, o.timers,
                                  [M EXCEPT !.processed[id] = @ + 1], f, FALSE)
              ELSE /\ camera' = o.camera
                   /\ timers' = o.timers
                   /\ mon' = M
                   /\ UNCHANGED <<storeVars, modal, now, dispVars, clsVars, pose, lesson>>

\* the animation frame the results callback requested
FrameFire ==
    \E tm \in {x \in timers : x.kind = "frame" /\ x.at = now} :
        LET o == onAnimationFrame(camera, now)
            r == o.process
        IN IF r # NoPending
           THEN processResults(o.camera, timers \ {tm},
                               [mon EXCEPT !.processed[r.id] = @ + 1,
                                           !.viaFrame = @ \cup {r.id},
                                           !.frameStale = @ \/ r.id # mon.results],
                               r.f, FALSE)
           ELSE /\ camera' = o.camera
                /\ timers' = timers \ {tm}
                /\ UNCHANGED <<storeVars, modal, now, dispVars, clsVars, pose, lesson, mon>>

\* the clock of the results: results come 10 ms or 40 ms apart
FrameSteps == {10, 40}
FrameHorizon == FrameTicks * 10
FrameTick == Tick(FrameSteps, FrameHorizon)

\* (the stream ends before the debounce timer of the provider is due)
NextFrames == FrameResults \/ FrameFire \/ FrameTick

SpecFrames == Init /\ [][NextFrames]_vars

----------------------------------------------------------------------------
(* The camera feed: frames and keyboard overrides, enough to fill the history *)

SmoothResults == \E f \in LessonFrames : PoseResults(f, MaxSmoothFrames)

\* one keyboard override of a run: the r key
SmoothKey == \E key \in {"r"} : mon.keys < 1 /\ KeyDown(key)

\* the clock of the camera feed: the debounce delay
SmoothSteps == {150}
SmoothHorizon == SmoothTicks * 150
SmoothTick == Tick(SmoothSteps, SmoothHorizon)

NextSmoothing == SmoothResults \/ SmoothKey \/ DebounceFire \/ SmoothTick

SpecSmoothing == Init /\ [][NextSmoothing]_vars

----------------------------------------------------------------------------
(* A lesson: frames, keys, timers and the summary *)

LessonResults == \E f \in LessonFrames : PoseResults(f, MaxFrames)

KeyPress == \E key \in LessonKeys : KeyDown(key)

\* the clock of a lesson: events come together, at a timer's deadline, or
\* a cooldown later
LessonSteps == {1000}
LessonHorizon == LessonTicks * 150
LessonTick == Tick(LessonSteps, LessonHorizon)

Next ==
    \/ LessonResults
    \/ KeyPress
    \/ DebounceFire
    \/ FlipFire
    \/ onRestartLesson
    \/ LessonTick

Spec == Init /\ [][Next]_vars

----------------------------------------------------------------------------
(* A lesson in learn or quiz mode: frames, keys, quiz answers and timers *)

\* the lesson page after the load effect restored the saved mode
InitNavigate ==
    /\ now = StartTime
    /\ InitDispatcher
    /\ InitClassifier
    /\ InitStore
    /\ timers = {}
    /\ pose = InitialPose
    /\ camera = InitialCamera
    /\ mon = InitialMon
    /\ modal = InitialModal
    /\ \E m \in {"learn", "quiz"} : lesson = [InitialLesson EXCEPT !.mode = m]

\* the timeout of handleQuizAnswer, with the statistics its closure holds
AnswerTimer(at, stats) == [kind |-> "answer", at |-> at, stats |-> stats]

\* handleQuizAnswer(wasCorrect), by one of the answer buttons, which are
\* there in quiz mode once the translation is shown
AnswerQuiz ==
    \E wasCorrect \in BOOLEAN :
    \E card \in {LessonCard(lesson.currentIndex)} :
    \E v2 \in {updateQuizStatsForAnswer(localStorage, loadQuizStats(localStorage),
                                        card, wasCorrect, now)} :
        /\ mon.quizAnswers < NavAnswers
        /\ lesson.mode = "quiz"
        /\ ~lesson.showSummary
        /\ lesson.showTranslation
        /\ lesson' = [lesson EXCEPT !.answerFeedback =
                                     IF wasCorrect THEN "correct" ELSE "incorrect"]
        /\ localStorage' = updateQuizStat(v2, generateCardKey(slugify(LessonCategory),
                                                              card.german),
                               IF wasCorrect THEN "correct" ELSE "incorrect", now)
        /\ timers' = timers \cup {AnswerTimer(now + 600, loadQuizStats(v2))}
        /\ mon' = [mon EXCEPT !.quizAnswers = @ + 1]
        /\ UNCHANGED <<now, dispVars, clsVars, cache, pendingWrites, pose, camera,
                       modal>>

\* the timeout of handleQuizAnswer runs: the next card is chosen
AnswerTimeout ==
    \E tm \in {x \in timers : x.kind = "answer" /\ x.at = now} :
    \E nextIndex \in chooseNextQuizCardIndex(DeckSize, tm.stats) :
        /\ LET L == [lesson EXCEPT !.answerFeedback = "null",
                                   !.currentIndex = nextIndex,
                                   !.showTranslation = FALSE]
               e == GestureEffect(L, state, pose.currentGesture, now)
           IN /\ Render(pose, L, state, timers \ {tm}, lastResult, camera)
              /\ mon' = EffectRun(Teardown(Credit(mon, mon.gestureKey, e.accepted),
                                           lesson, e.lesson, now),
                                  L, state, e, pose.currentGesture,
                                  pose.currentGesture, now)
        /\ UNCHANGED <<storeVars, modal, now, calls, clsVars>>

\* the keys of the lesson page alone, and the frames of a raised hand
NavKeys == {"ArrowRight", "ArrowLeft", " "}
NavFrames == {PrevFrame, NextFrame}
NavResults == \E f \in NavFrames : PoseResults(f, MaxFrames)
NavKeyPress == \E key \in NavKeys : KeyDown(key)

NavSteps == {1000}
NavHorizon == NavTicks * 150
NavTick == Tick(NavSteps, NavHorizon)

NextNavigate ==
    \/ NavResults
    \/ NavKeyPress
    \/ DebounceFire
    \/ FlipFire
    \/ AnswerQuiz
    \/ AnswerTimeout
    \/ NavTick

SpecNavigate == InitNavigate /\ [][NextNavigate]_vars

----------------------------------------------------------------------------
(* The calibration modal of the settings panel *)

\* a run of the modal begins or ends: nothing is observed of it yet
MonRunReset(Mn) ==
    [Mn EXCEPT !.calClosed = <<>>, !.calEmitted = 0,
               !.calRetried = FALSE, !.calDiscarded = 0, !.calStepStart = 0,
               !.calSampleStep = "none", !.calSampleAfter = 0]

\* a collection window closed: no sample of an open window is left
MonWindowClosed(Mn) == [Mn EXCEPT !.calSampleStep = "none", !.calSampleAfter = 0]

\* the step effect left the modal in M: startStep ran at t if it is open on a
\* capture step
MonStepStart(Mn, M, t) ==
    IF M.isOpen /\ M.currentStep \in CaptureKeys
    THEN [Mn EXCEPT !.calStepStart = t] ELSE Mn

\* the Start Calibration button of SettingsPanel
OpenCalibration ==
    /\ ~modal.isOpen
    /\ \E e \in {StepEffect([modal EXCEPT !.isOpen = TRUE], timers, now)} :
          /\ modal' = e.modal
          /\ timers' = e.timers
          /\ mon' = MonStepStart([mon EXCEPT !.calRetried = FALSE], e.modal, now)
    /\ UNCHANGED <<storeVars, now, dispVars, clsVars, pose, camera, lesson>>

\* the Cancel and Close buttons; Cancel is disabled while collecting
CloseCalibration ==
    /\ modal.isOpen
    /\ modal.currentStep \in {"complete", "error"} \/ ~modal.isCollecting
    /\ \E e \in {StepEffect(handleClose(modal), timers, now)} :
          /\ modal' = e.modal
          /\ timers' = e.timers
    /\ mon' = MonRunReset(mon)
    /\ UNCHANGED <<storeVars, now, dispVars, clsVars, pose, camera, lesson>>

\* the Retry button of the error view
RetryCalibration ==
    /\ modal.isOpen
    /\ modal.currentStep = "error"
    /\ \E e \in {StepEffect(handleRetry(modal), timers, now)} :
          /\ modal' = e.modal
          /\ timers' = e.timers
          /\ mon' = MonStepStart(
                        [MonRunReset(mon) EXCEPT
                            !.calRetried = TRUE,
                            !.calDiscarded = Cardinality(
                                {k \in CaptureKeys : modal.allStepDataRef[k].isSet})],
                        e.modal, now)
    /\ UNCHANGED <<storeVars, now, dispVars, clsVars, pose, camera, lesson>>

\* a period of countdownInterval ends: its updater counts down or starts the
\* collection
CountdownTick ==
    \E tm \in timers :
        /\ tm.kind = "countdown"
        /\ tm.at <= now
        /\ IF CountdownRead(modal) <= 10
           THEN /\ modal' = [modal EXCEPT
                                !.isCollecting = TRUE,
                                !.countdown = 0,
                                !.landmarksCallbackRef = TRUE,
                                !.countdownUpdates = @ + 1]
                /\ timers' = (timers \ {tm})
                               \union {CollectionTimer(now + CALIBRATION_DURATION_MS)}
           ELSE /\ modal' = [modal EXCEPT !.countdown = CountdownRead(modal) - 10]
                /\ timers' = (timers \ {tm})
                               \union {CountdownTimer(tm.at + CountdownPeriodMs)}
        /\ mon' = [mon EXCEPT !.calRetried = FALSE]
        /\ UNCHANGED <<storeVars, now, dispVars, clsVars, pose, camera, lesson>>

\* the camera feed hands a frame with visible landmarks to the callback the
\* modal registered; the samples of one window are equal
LandmarksSample ==
    \E d \in SampleDeltas :
        /\ modal.landmarksCallbackRef
        /\ Len(modal.collectedDeltasRef) < MaxCalSamples
        /\ \A i \in 1..Len(modal.collectedDeltasRef) : modal.collectedDeltasRef[i] = d
        /\ modal' = [modal EXCEPT !.collectedDeltasRef = Append(@, d)]
        /\ mon' = [mon EXCEPT !.calSampleStep = modal.currentStep,
                              !.calSampleAfter = now - mon.calStepStart]
        /\ UNCHANGED <<storeVars, now, dispVars, clsVars, timers, pose, camera, lesson>>

\* collectionTimeout runs: the window closes
CollectionTimeout ==
    \E tm \in timers :
        /\ tm.kind = "collection"
        /\ tm.at <= now
        /\ LET deltas == modal.collectedDeltasRef
               closed == [modal EXCEPT !.isCollecting = FALSE,
                                       !.landmarksCallbackRef = FALSE]
               stored == [closed EXCEPT
                             !.allStepDataRef[modal.currentStep] = Average(deltas)]
           IN IF Len(deltas) = 0
              THEN /\ modal' = [closed EXCEPT !.error = TRUE, !.currentStep = "error"]
                   /\ timers' = timers \ {tm}
                   /\ mon' = MonWindowClosed(mon)
                   /\ UNCHANGED localStorage
              ELSE IF StepIndex(modal.currentStep) < Len(STEPS)
              THEN /\ modal' = stored
                   /\ timers' = (timers \ {tm}) \union
                         {StepTimer(STEPS[StepIndex(modal.currentStep) + 1],
                                    now + StepDelayMs)}
                   /\ mon' = [MonWindowClosed(mon) EXCEPT
                                 !.calClosed = Append(@, modal.currentStep)]
                   /\ UNCHANGED localStorage
              ELSE \E r \in {computeThresholds(stored, StoredProfile(localStorage))} :
                   /\ localStorage' = Saved(localStorage, r.calibration)
                   /\ IF r.emitted
                      THEN \E e \in {StepEffect(r.modal, timers \ {tm}, now)} :
                              /\ modal' = e.modal
                              /\ timers' = e.timers
                      ELSE /\ modal' = r.modal
                           /\ timers' = timers \ {tm}
                   /\ mon' = [MonWindowClosed(mon) EXCEPT
                                 !.calClosed = Append(@, modal.currentStep),
                                 !.calEmitted = IF r.emitted THEN @ + 1 ELSE @]
        /\ UNCHANGED <<now, dispVars, clsVars, cache, pendingWrites, pose, camera,
                       lesson>>

\* the timeout that moves to the next step runs setCurrentStep
StepTimeout ==
    \E tm \in timers :
        /\ tm.kind \in CaptureKeys
        /\ tm.at <= now
        /\ IF modal.currentStep = tm.kind
           THEN /\ timers' = timers \ {tm}
                /\ UNCHANGED <<modal, mon>>
           ELSE \E e \in {StepEffect([modal EXCEPT !.currentStep = tm.kind],
                                     timers \ {tm}, now)} :
                   /\ modal' = e.modal
                   /\ timers' = e.timers
                   /\ mon' = MonStepStart(mon, e.modal, now)
        /\ UNCHANGED <<storeVars, now, dispVars, clsVars, pose, camera, lesson>>

\* the clock of a calibration: events come at a timer's deadline, a quarter
\* of a second or a second after the last
CalSteps == {250, 1000}
CalHorizon == CalTicks * 1000
CalTick == Tick(CalSteps, CalHorizon)

NextCalibration ==
    \/ OpenCalibration
    \/ CloseCalibration
    \/ RetryCalibration
    \/ CountdownTick
    \/ LandmarksSample
    \/ CollectionTimeout
    \/ StepTimeout
    \/ CalTick

SpecCalibration == Init /\ [][NextCalibration]_vars

----------------------------------------------------------------------------
(* Claims about the dispatcher (SpecDispatcher) *)

\* C1: with no reset() since the last accepted dispatch, a dispatch with
\* isFlipping = FALSE made less than cooldownMs after it is refused with
\* reason 'cooldown', whatever the action and the source; so the timestamps
\* of successive accepted dispatches are at least cooldownMs apart.
C1_CooldownRefuses ==
    /\ (/\ lastResult.called
        /\ ~lastResult.isFlipping
        /\ lastResult.prevType # NoAction
        /\ lastResult.at - lastResult.prevTime < cooldownMs)
       => (~lastResult.dispatched /\ lastResult.reason = "cooldown")
    /\ \A i \in 1..(Len(state.actionLog) - 1) :
          state.actionLog[i + 1].timestamp - state.actionLog[i].timestamp >= cooldownMs

\* a call of another action from the other source, 400 ms after the second
\* of two accepted dispatches, was refused for cooldown
C1_Witness ==
    /\ Len(state.actionLog) = 2
    /\ lastResult.called
    /\ ~lastResult.isFlipping
    /\ lastResult.reason = "cooldown"
    /\ lastResult.action # state.lastActionType
    /\ lastResult.source # state.actionLog[2].source
    /\ lastResult.at - state.lastActionTime = 400

\* C4: a dispatch with isFlipping = TRUE returns dispatched = FALSE with
\* reason 'flip_animation' in every dispatcher state and at every time.
C4_FlipLockFirst ==
    (lastResult.called /\ lastResult.isFlipping)
        => (~lastResult.dispatched /\ lastResult.reason = "flip_animation")

\* a flip-locked call made inside the cooldown window of the same action
C4_Witness ==
    /\ lastResult.called
    /\ lastResult.isFlipping
    /\ lastResult.prevType = lastResult.action
    /\ lastResult.at - lastResult.prevTime < repeatPreventionMs
    /\ lastResult.reason = "flip_animation"

----------------------------------------------------------------------------
(* Unit level: computeThresholds applied to the step data of a run *)

\* the last window has just stored its average
InitThresholds ==
    /\ now = StartTime
    /\ InitDispatcher
    /\ InitClassifier
    /\ timers = {}
    /\ pose = InitialPose
    /\ camera = InitialCamera
    /\ lesson = InitialLesson
    /\ mon = InitialMon
    /\ localStorage = InitialStorage
    /\ cache = NoCache
    /\ pendingWrites = NoPendingWrites
    /\ \E data \in [CaptureKeys -> SampleAverages] :
          /\ data["both"].isSet
          /\ modal = [InitialModal EXCEPT !.isOpen = TRUE,
                                          !.currentStep = "both",
                                          !.allStepDataRef = data]

ComputeThresholdsCall ==
    /\ modal.currentStep = "both"
    /\ \E r \in {computeThresholds(modal, StoredProfile(localStorage))} :
          /\ localStorage' = Saved(localStorage, r.calibration)
          /\ modal' = r.modal
          /\ mon' = [mon EXCEPT !.calEmitted = IF r.emitted THEN @ + 1 ELSE @]
    /\ UNCHANGED <<now, dispVars, clsVars, cache, pendingWrites, timers, pose,
                   camera, lesson>>

NextThresholds == ComputeThresholdsCall

SpecThresholds == InitThresholds /\ [][NextThresholds]_vars

----------------------------------------------------------------------------
(* Unit level: classifications that load the profile from the storage *)

InitLoad ==
    /\ now = StartTime
    /\ InitDispatcher
    /\ InitClassifier
    /\ InitUI
    /\ localStorage \in [gestureCalibration : StoredEntries,
                          unavailable : BOOLEAN,
                          progress : {InitialStorage.progress},
                          quizStats : {NoStats},
                          quizStatsV2 : {NoStats}]
    /\ cache = NoCache
    /\ pendingWrites = NoPendingWrites

\* inferGestureFromLandmarks(landmarks, sensitivity) on a frame, the profile
\* coming from loadCalibrationThresholdsFromStorage()
InferFromStorage ==
    \E f \in LessonFrames :
    \E r \in {loadCalibrationThresholdsFromStorage(cache, localStorage, now)} :
        /\ landmarks' = f
        /\ calibration' = r.result
        /\ inferredGesture' = inferGestureFromLandmarks(f, sensitivityFactor, r.result)
        /\ cache' = r.cache
        /\ localStorage' = r.localStorage
        /\ mon' = [mon EXCEPT !.loadTried = r.loaded,
                              !.loadThrew = r.threw,
                              !.loadedEntry = localStorage.gestureCalibration]
        /\ UNCHANGED <<now, dispVars, sensitivityFactor, timers, pose, camera,
                       lesson, modal, pendingWrites>>

\* something writes the key: saveCalibrationThresholds, another tab, the user
StorageWrite ==
    \E e \in StoredEntries :
        /\ ~localStorage.unavailable
        /\ localStorage' = [localStorage EXCEPT !.gestureCalibration = e]
        /\ mon' = [mon EXCEPT !.loadTried = FALSE, !.loadThrew = FALSE,
                              !.loadedEntry = NoEntry]
        /\ UNCHANGED <<now, dispVars, clsVars, cache, pendingWrites, timers, pose,
                       camera, lesson, modal>>

LoadSteps == {1000}
LoadHorizon == LoadTicks * 1000
LoadTick == Tick(LoadSteps, LoadHorizon)

NextLoad == InferFromStorage \/ StorageWrite \/ LoadTick

SpecLoad == InitLoad /\ [][NextLoad]_vars

----------------------------------------------------------------------------
(* Unit level: progressStorage called directly *)

ProgressValues ==
    {LessonProgress(0, FALSE, FALSE), LessonProgress(1, FALSE, TRUE),
     LessonProgress(1, TRUE, FALSE)}

\* entries found under a progress key when the page opens
ProgressEntries ==
    {NoProgressEntry,
     StringifiedProgress(LessonProgress(2, FALSE, FALSE)),
     ProgressEntry("unparsable", NoProgressObject)}

InitProgress ==
    /\ now = StartTime
    /\ InitDispatcher
    /\ InitClassifier
    /\ InitUI
    /\ localStorage \in [gestureCalibration : {NoEntry},
                          unavailable : {FALSE},
                          progress : [Categories -> ProgressEntries],
                          quizStats : {NoStats},
                          quizStatsV2 : {NoStats}]
    /\ cache = NoCache
    /\ pendingWrites = NoPendingWrites

\* saveProgress(categoryId, data)
SaveProgressCall ==
    \E c \in Categories, data \in ProgressValues :
    \E r \in {saveProgress(pendingWrites, timers, c, data, now)} :
        /\ mon.progOps < MaxProgressOps
        /\ pendingWrites' = r.pendingWrites
        /\ timers' = r.timers
        /\ mon' = [mon EXCEPT
              !.progOps = @ + 1,
              !.progLast = [op |-> "save", cat |-> c],
              !.progSaved[c] = data,
              !.progBursts[c] = IF ProgressTimers(timers, c) = {} THEN @ + 1 ELSE @,
              !.progBurstLen[c] = IF ProgressTimers(timers, c) = {} THEN 1 ELSE @ + 1,
              !.progReset[c] = FALSE,
              !.progCancelled[c] = 0,
              !.progLoaded = NoProgress]
        /\ UNCHANGED <<now, dispVars, clsVars, localStorage, cache, pose, camera,
                       lesson, modal>>

\* the debounce timer of a category fires: debouncedWriteProgress(categoryId)
ProgressTimerFire ==
    \E tm \in timers :
    \E r \in {debouncedWriteProgress(localStorage, pendingWrites, tm.kind)} :
        /\ tm.kind \in Categories
        /\ tm.at <= now
        /\ timers' = timers \ {tm}
        /\ localStorage' = r.localStorage
        /\ pendingWrites' = r.pendingWrites
        /\ mon' = [mon EXCEPT
              !.progLast = [op |-> "write", cat |-> tm.kind],
              !.progWrites[tm.kind] = IF r.wrote THEN @ + 1 ELSE @,
              !.progLoaded = NoProgress]
        /\ UNCHANGED <<now, dispVars, clsVars, cache, pose, camera, lesson, modal>>

\* resetProgressForCategory(categoryId)
ResetProgressCall ==
    \E c \in Categories :
    \E r \in {resetProgressForCategory(localStorage, pendingWrites, timers, c)} :
        /\ mon.progOps < MaxProgressOps
        /\ localStorage' = r.localStorage
        /\ pendingWrites' = r.pendingWrites
        /\ timers' = r.timers
        /\ mon' = [mon EXCEPT
              !.progOps = @ + 1,
              !.progLast = [op |-> "reset", cat |-> c],
              !.progSaved[c] = NoProgress,
              !.progBursts[c] = IF ProgressTimers(timers, c) = {} THEN @ ELSE @ - 1,
              !.progBurstLen[c] = 0,
              !.progReset[c] = TRUE,
              !.progCancelled[c] =
                  IF ProgressTimers(timers, c) = {} THEN 0
                  ELSE (CHOOSE tm \in ProgressTimers(timers, c) : TRUE).at,
              !.progLoaded = NoProgress]
        /\ UNCHANGED <<now, dispVars, clsVars, cache, pose, camera, lesson, modal>>

\* loadProgress(categoryId)
LoadProgressCall ==
    \E c \in Categories :
    \E r \in {loadProgress(localStorage, c)} :
        /\ mon.progLast # [op |-> "load", cat |-> c]
        /\ localStorage' = r.localStorage
        /\ mon' = [mon EXCEPT
              !.progLast = [op |-> "load", cat |-> c],
              !.progLoaded = r.result]
        /\ UNCHANGED <<now, dispVars, clsVars, cache, pendingWrites, timers, pose,
                       camera, lesson, modal>>

ProgressSteps == {100}
ProgressHorizon == ProgressTicks * 100
ProgressTick == Tick(ProgressSteps, ProgressHorizon)

NextProgress ==
    \/ SaveProgressCall
    \/ ProgressTimerFire
    \/ ResetProgressCall
    \/ LoadProgressCall
    \/ ProgressTick

SpecProgress == InitProgress /\ [][NextProgress]_vars

----------------------------------------------------------------------------
(* Unit level: quiz answers and resets of the statistics of a category *)

\* handleQuizAnswer(wasCorrect) on a card of the lesson of categoryId: the
\* v2 statistics, then the legacy ones
QuizAnswer ==
    \E cat \in getCategories, wasCorrect \in BOOLEAN :
    \E card \in getFlashcardsForCategory(cat.id) :
    \E v2 \in {updateQuizStatsForAnswer(localStorage, loadQuizStats(localStorage),
                                        card, wasCorrect, now)} :
        /\ mon.quizAnswers < MaxQuizAnswers
        /\ localStorage' = updateQuizStat(v2, generateCardKey(cat.id, card.german),
                               IF wasCorrect THEN "correct" ELSE "incorrect", now)
        /\ mon' = [mon EXCEPT !.quizAnswers = @ + 1, !.quizReset = <<>>]
        /\ UNCHANGED <<now, dispVars, clsVars, cache, pendingWrites, timers, pose,
                       camera, lesson, modal>>

\* handleResetCategoryQuizStats: resetQuizStatsForCategory(categoryId)
ResetQuizStats ==
    \E cat \in getCategories :
        /\ mon.quizReset # cat.id
        /\ localStorage' = resetQuizStatsForCategory(localStorage, cat.id)
        /\ mon' = [mon EXCEPT !.quizReset = cat.id]
        /\ UNCHANGED <<now, dispVars, clsVars, cache, pendingWrites, timers, pose,
                       camera, lesson, modal>>

NextQuiz == QuizAnswer \/ ResetQuizStats

SpecQuiz == Init /\ [][NextQuiz]_vars

----------------------------------------------------------------------------
(* A landmark stream without end.  The code reads differences of times
   only, so the clock is kept where it is and every recorded time is moved
   back by the time that passes; a time further back than the window it is
   compared with is kept as 0. *)

\* the time x, which the code compares with the window w, when the clock
\* has passed from t - d to t
Aged(x, w, d, t) == IF x = 0 \/ t - x >= w THEN 0 ELSE x - d
\* the deadline x of a timer; one that has passed is kept as 0
AgedDeadline(x, d, t) == IF x < t THEN 0 ELSE x - d

AgedState(D, d, t) ==
    [D EXCEPT !.lastActionTime = Aged(@, cooldownMs, d, t),
              !.actionLog = [i \in 1..Len(@) |->
                                [@[i] EXCEPT !.timestamp = Aged(@, 0, d, t)]]]

\* processPoseResults on a PREV or a neutral frame
HeldResults ==
    \E f \in StreamFrames : processPoseResults(f, TRUE)

\* frames are 75 ms apart or closer, or further apart than the debounce
HeldSteps == {75}

\* time passes, up to the next deadline
HeldTick ==
    \E step \in HeldSteps :
    \E target \in {IF timers = {} THEN now + step
                   ELSE Min(now + step, NextDeadline(timers, now))} :
    \E d \in {target - now} :
        /\ target > now
        /\ state' = AgedState(state, d, target)
        /\ lastResult' = [lastResult EXCEPT !.at = Aged(@, 0, d, target),
                                            !.prevTime = Aged(@, 0, d, target)]
        /\ pose' = [pose EXCEPT !.lastUpdateTimeRef = Aged(@, THROTTLE_MS, d, target),
                                !.debounceTimerRef = AgedDeadline(@, d, target)]
        /\ timers' = {[tm EXCEPT !.at = AgedDeadline(@, d, target)] : tm \in timers}
        /\ mon' = HeldObservations(mon, Min(mon.sinceFrame + d, DEBOUNCE_MS))
        /\ UNCHANGED <<now, calls, clsVars, camera, lesson, modal, storeVars>>

NextHeld == HeldResults \/ DebounceFire \/ HeldTick

\* a due timer runs and time passes: the event loop of the browser
SpecHeld ==
    Init /\ [][NextHeld]_vars /\ WF_vars(DebounceFire) /\ WF_vars(HeldTick)

----------------------------------------------------------------------------
(* Claims about the lesson (Spec) *)

\* C2: keyboard and gesture dispatches go through one dispatcher, so that a
\* single press of n, p or s, which reaches the lesson page both as a
\* keyboard event and as a simulated gesture, yields at most one accepted
\* dispatch.
C2_OneNavigationPerKeyPress ==
    \A k \in 1..MaxKeys : mon.navByKey[k] <= 1

\* C15: after Restart Lesson on the summary screen, lastActionTime,
\* lastActionType and the action log of the dispatcher are cleared.
C15_RestartResetsDispatcher ==
    mon.restarted => mon.restartLeft = InitialDispatcherState

\* C16: after a teardown (the camera feed unmounts, the lesson restarts) no
\* pending debounce timer fires: a candidate submitted before the teardown
\* is not emitted after it.
C16_NoEmissionAfterTeardown ==
    ~(/\ mon.teardownAt > 0
      /\ mon.emitLast.g # NoGesture
      /\ mon.emitLast.requestedAt <= mon.teardownAt
      /\ mon.emitLast.at > mon.teardownAt)

----------------------------------------------------------------------------
(* Claims about a landmark stream (SpecStream) *)

DebouncePending == \E tm \in timers : tm.kind = "debounce"

\* C3: a stream of 5 frames classified PREV followed by neutral frames gives
\* exactly one accepted dispatch, a PREV of source gesture, once the
\* debounce has run; and whatever PREV and neutral frames follow, no other
\* dispatch is accepted less than 1000 ms after it.
C3_OnePrevDispatch ==
    /\ mon.phase \in {"lead", "neutral", "repeat"} =>
          \A i \in 1..Len(state.actionLog) :
              /\ state.actionLog[i].action = "PREV"
              /\ state.actionLog[i].source = "gesture"
              /\ i > 1 => state.actionLog[i].timestamp
                              - state.actionLog[1].timestamp >= 1000
    /\ mon.phase \in {"lead", "neutral"} => Len(state.actionLog) <= 1
    /\ (mon.phase = "neutral" /\ ~DebouncePending) => Len(state.actionLog) = 1

\* the PREV frames were repeated after the neutral ones, PREV became the
\* current gesture again and its dispatch was refused for cooldown
C3_Witness ==
    /\ mon.phase = "repeat"
    /\ Len(state.actionLog) = 1
    /\ lastResult.called
    /\ lastResult.action = "PREV"
    /\ lastResult.source = "gesture"
    /\ lastResult.reason = "cooldown"
    /\ lastResult.at > state.actionLog[1].timestamp

\* C5: while the majority stays the same over successive processed frames,
\* processPoseResults passes at most one candidate to setGesture.
C5_EdgeTriggered == mon.callsThisMajority <= 1

----------------------------------------------------------------------------
(* Claims about the gesture setter (SpecScheduler) *)

\* C6: at most one debounce timer is pending; the pending candidate is the
\* argument of the latest setGesture call; what a debounce callback emits is
\* that argument, a full debounce delay after that call.
C6_LastWriteWins ==
    /\ Cardinality({tm \in timers : tm.kind = "debounce"}) <= 1
    /\ pose.pendingGestureRef \in {NoGesture, mon.lastRequested}
    /\ mon.emitLast.g # NoGesture =>
          /\ mon.emitLast.g = mon.emitLast.requested
          /\ mon.emitLast.at - mon.emitLast.requestedAt >= 150

\* a candidate was replaced while its timer was pending, and the callback
\* has just emitted the other gesture that replaced it
C6_Witness ==
    /\ mon.emitLast.at = now
    /\ mon.replaced # NoGesture
    /\ mon.replaced # mon.emitLast.g
    /\ mon.emitLast.g = mon.lastRequested

\* C7: two successive changes of currentGesture are at least 150 ms apart,
\* and each sets a value different from the one before it.
C7_ChangesSpacedAndDistinct ==
    /\ (mon.emitLast.g # NoGesture /\ mon.emitPrev.g = NoGesture) =>
          mon.emitLast.g # InitialPose.currentGesture
    /\ mon.emitPrev.g # NoGesture =>
          /\ mon.emitLast.at - mon.emitPrev.at >= 150
          /\ mon.emitLast.g # mon.emitPrev.g

\* two changes exactly one debounce delay apart
C7_Witness ==
    /\ mon.emitPrev.g # NoGesture
    /\ mon.emitLast.at - mon.emitPrev.at = 150
    /\ pose.currentGesture = mon.emitLast.g

----------------------------------------------------------------------------
(* Claims about the classifier (SpecClassify) *)

PrevRule(f, s, cal) ==
    /\ GreaterThan(Features(f).dxRight, AdjustedThresholds(cal, s).prevDxRightMin)
    /\ LessThan(Features(f).absDyRight, AdjustedThresholds(cal, s).prevAbsDyRightMax)

NextRule(f, s, cal) ==
    /\ GreaterThan(Features(f).dxLeft, AdjustedThresholds(cal, s).nextDxLeftMin)
    /\ LessThan(Features(f).absDyLeft, AdjustedThresholds(cal, s).nextAbsDyLeftMax)

SelectRule(f, s, cal) ==
    /\ LessThan(Features(f).dyRight, AdjustedThresholds(cal, s).selectDyThreshold)
    /\ LessThan(Features(f).dyLeft, AdjustedThresholds(cal, s).selectDyThreshold)

\* C8: for a valid frame the result is the first matching rule in the order
\* PREV, NEXT, SELECT, and REST when none matches; in particular PREV when
\* the PREV and the NEXT rule both match.
C8_FirstMatchWins ==
    (inferredGesture # NoGesture /\ ~FrameUnusable(landmarks)) =>
        /\ (PrevRule(landmarks, sensitivityFactor, calibration)
            /\ NextRule(landmarks, sensitivityFactor, calibration))
           => inferredGesture = "PREV"
        /\ inferredGesture =
             IF PrevRule(landmarks, sensitivityFactor, calibration) THEN "PREV"
             ELSE IF NextRule(landmarks, sensitivityFactor, calibration) THEN "NEXT"
             ELSE IF SelectRule(landmarks, sensitivityFactor, calibration) THEN "SELECT"
             ELSE "REST"

\* a valid frame matching the PREV and the NEXT rule was classified
C8_Witness ==
    /\ inferredGesture = "PREV"
    /\ ~FrameUnusable(landmarks)
    /\ PrevRule(landmarks, sensitivityFactor, calibration)
    /\ NextRule(landmarks, sensitivityFactor, calibration)

\* a frame is short, has a hole at a consumed index, or a consumed landmark
\* whose visibility is given and below 0.5
C9_Unusable ==
    \/ landmarks.len < 17
    \/ \E i \in {11, 12, 15, 16} :
          \/ ~landmarks.lm[i].present
          \/ (landmarks.lm[i].visibility # NoVisibility
              /\ landmarks.lm[i].visibility < 500)

\* C9: the result is REST for every frame with fewer than 17 landmarks and
\* for every frame with a consumed landmark missing or of visibility < 0.5,
\* whatever the sensitivity and the stored calibration.
C9_UnusableIsRest ==
    (inferredGesture # NoGesture /\ C9_Unusable) => inferredGesture = "REST"

\* a full-length frame whose geometry matches the PREV rule, with one
\* landmark of low visibility, was classified REST under a calibrated profile
C9_Witness ==
    /\ inferredGesture = "REST"
    /\ landmarks.len >= 17
    /\ \A i \in ConsumedIndices : landmarks.lm[i].present
    /\ \E i \in ConsumedIndices : landmarks.lm[i].visibility = MIN_VISIBILITY - 1
    /\ PrevRule(landmarks, sensitivityFactor, calibration)
    /\ ~calibration.isNull /\ calibration.calibrated

ThresholdNames ==
    {"prevDxRightMin", "prevAbsDyRightMax", "nextDxLeftMin",
     "nextAbsDyLeftMax", "selectDyThreshold"}

\* |p| < |q| for fractions with positive denominators
SmallerMagnitude(p, q) == Abs(p.num) * q.den < Abs(q.num) * p.den

\* C10: at sensitivityFactor 0.12 each of the five scaled thresholds is
\* strictly smaller in magnitude than at 1.0, and a valid frame classified
\* as a non-REST gesture at 1.0 is not classified REST at 0.12.
C10_LowerSensitivityEasier ==
    /\ \A k \in ThresholdNames :
          SmallerMagnitude(AdjustedThresholds(calibration, 12)[k],
                           AdjustedThresholds(calibration, 100)[k])
    /\ (/\ ~FrameUnusable(landmarks)
        /\ inferGestureFromLandmarks(landmarks, 100, calibration) # "REST")
       => inferGestureFromLandmarks(landmarks, 12, calibration) # "REST"

\* both wrists are above their shoulders (y grows downward)
WristsAboveShoulders(f) ==
    /\ f.lm[LEFT_WRIST].y < f.lm[LEFT_SHOULDER].y
    /\ f.lm[RIGHT_WRIST].y < f.lm[RIGHT_SHOULDER].y

\* C11: inferGestureFromLandmarks returns SELECT only for frames in which
\* both wrists are above their respective shoulders.
C11_SelectOnlyWristsAbove ==
    inferredGesture = "SELECT" => WristsAboveShoulders(landmarks)

\* the rule on the right wrist and shoulder, and the one on the left
RightArmRule(f, s, cal) == PrevRule(f, s, cal)
LeftArmRule(f, s, cal) == NextRule(f, s, cal)

\* C12: a valid frame in which only the right arm satisfies its rule is
\* classified NEXT, and one in which only the left arm does is classified
\* PREV.
C12_RightIsNextLeftIsPrev ==
    (inferredGesture # NoGesture /\ ~FrameUnusable(landmarks)) =>
        /\ (RightArmRule(landmarks, sensitivityFactor, calibration)
            /\ ~LeftArmRule(landmarks, sensitivityFactor, calibration))
           => inferredGesture = "NEXT"
        /\ (LeftArmRule(landmarks, sensitivityFactor, calibration)
            /\ ~RightArmRule(landmarks, sensitivityFactor, calibration))
           => inferredGesture = "PREV"

----------------------------------------------------------------------------
(* Claims about the action log and reset() (SpecLog) *)

\* the last n entries of a sequence
LastN(q, n) == IF Len(q) <= n THEN q ELSE SubSeq(q, Len(q) - n + 1, Len(q))

\* C13: the action log holds at most maxLogEntries entries, which are the
\* most recent accepted dispatches since the last reset, in acceptance
\* order with their action, timestamp and source; when the log is not empty,
\* lastActionTime and lastActionType are those of its newest entry.
C13_LogIsRecentAccepted ==
    /\ Len(state.actionLog) <= 5
    /\ state.actionLog = LastN(mon.accepted, 5)
    /\ state.actionLog # <<>> =>
          /\ state.lastActionTime = state.actionLog[Len(state.actionLog)].timestamp
          /\ state.lastActionType = state.actionLog[Len(state.actionLog)].action

\* a sixth dispatch was accepted and the oldest entry evicted
C13_Witness ==
    /\ Len(mon.accepted) > 5
    /\ Len(state.actionLog) = 5
    /\ state.actionLog[1] = mon.accepted[Len(mon.accepted) - 4]

\* C14: reset() leaves lastActionTime = 0, lastActionType = null and an
\* empty log, and the first dispatch after it with isFlipping = FALSE is
\* accepted however recently an action was accepted before the reset.
C14_ResetClears ==
    /\ mon.pendingReset => state = InitialDispatcherState
    /\ (lastResult.called /\ mon.firstSinceReset /\ ~lastResult.isFlipping)
          => lastResult.dispatched

\* a dispatch was accepted after a reset, inside what was the cooldown of
\* an action accepted before the reset
C14_Witness ==
    /\ lastResult.called
    /\ mon.firstSinceReset
    /\ lastResult.dispatched
    /\ mon.acceptedBeforeReset > 0
    /\ lastResult.at - mon.acceptedBeforeReset < cooldownMs

----------------------------------------------------------------------------
(* Claims about the gesture history and the majority vote (SpecSmoothing) *)

\* C17: the gesture history holds at most 7 entries; a processed frame
\* appends its raw classification and evicts the oldest entry of a full
\* history, a keyboard override empties it; a frame that leaves fewer than 4
\* entries passes no candidate to setGesture.
C17_HistoryBounded ==
    [][/\ Len(camera'.gestureHistoryRef) <= 7
       /\ mon'.frames # mon.frames =>
            /\ camera'.gestureHistoryRef
                  = LastN(Append(camera.gestureHistoryRef, inferredGesture'), 7)
            /\ Len(camera'.gestureHistoryRef) < 4 => (pose' = pose /\ timers' = timers)
       /\ mon'.keys # mon.keys => camera'.gestureHistoryRef = <<>>]_vars

\* more than 7 frames were processed with no override: the oldest was evicted
C17_Witness ==
    /\ mon.frames > 7
    /\ mon.keys = 0
    /\ Len(camera.gestureHistoryRef) = 7

\* position of a gesture in the order REST, NEXT, PREV, SELECT
Rank(g) == CHOOSE i \in 1..Len(ALL_GESTURES) : ALL_GESTURES[i] = g

\* the most frequent gesture of a history, the first in the order among ties
FirstMostFrequent(h) ==
    CHOOSE g \in GestureType :
        /\ \A k \in GestureType : Count(h, g) >= Count(h, k)
        /\ \A k \in GestureType : Count(h, k) = Count(h, g) => Rank(g) <= Rank(k)

\* C18: every call of computeMajorityGesture returns the most frequent
\* gesture of the history, the first in the order REST, NEXT, PREV, SELECT
\* among ties, also when the same array was mutated in place since the last
\* call.
C18_MajorityFirstInOrder ==
    Len(camera.gestureHistoryRef) >= 4 =>
        mon.lastMajority = FirstMostFrequent(camera.gestureHistoryRef)

\* the tie NEXT, PREV, NEXT, PREV was resolved to NEXT
C18_Witness ==
    /\ camera.gestureHistoryRef = <<"NEXT", "PREV", "NEXT", "PREV">>
    /\ mon.lastMajority = "NEXT"

----------------------------------------------------------------------------
(* Claims about the calibration modal (SpecCalibration) *)

\* C19: a calibration run is COMPLETE, or has emitted a profile, only when
\* the steps rest, right, left, both of that run each closed with a sample,
\* in that order, and it has then emitted exactly one profile.
C19_CompleteAfterFourSteps ==
    (modal.currentStep = "complete" \/ mon.calEmitted > 0) =>
        /\ modal.currentStep = "complete"
        /\ mon.calClosed = STEPS
        /\ mon.calEmitted = 1
        /\ StoredProfile(localStorage) = Thresholds(modal.allStepDataRef)

\* a run completed
C19_Witness ==
    /\ modal.currentStep = "complete"
    /\ mon.calClosed = STEPS
    /\ mon.calEmitted = 1
    /\ StoredProfile(localStorage).calibrated

\* C20: a collection window that closes with no sample leaves the modal in
\* ERROR with no profile emitted; no profile is emitted while in ERROR; and
\* Retry leaves ERROR for the rest step with no step average kept, no sample
\* collected and the countdown of the rest step running.
C20_ZeroSamplesIsError ==
    [][/\ (modal.isCollecting /\ ~modal'.isCollecting
             /\ modal.collectedDeltasRef = <<>>) =>
            /\ modal'.currentStep = "error"
            /\ modal'.isOpen
            /\ localStorage' = localStorage
            /\ mon'.calEmitted = mon.calEmitted
       /\ modal.currentStep = "error" =>
            /\ localStorage' = localStorage
            /\ mon'.calEmitted = mon.calEmitted
       /\ (modal.currentStep = "error" /\ modal'.currentStep # "error"
             /\ modal'.isOpen) =>
            /\ modal'.currentStep = "rest"
            /\ modal'.allStepDataRef = NoStepData
            /\ modal'.collectedDeltasRef = <<>>
            /\ CountdownTimer(now + CountdownPeriodMs) \in timers']_vars

\* Retry has just discarded the average of a step that had closed
C20_Witness ==
    /\ mon.calRetried
    /\ mon.calDiscarded > 0
    /\ modal.isOpen
    /\ modal.currentStep = "rest"
    /\ modal.allStepDataRef = NoStepData

\* lengths of the lead-in countdown and of the collection window
LeadInMs == 3 * CountdownPeriodMs

\* C21: a sample of a capture step is collected no sooner than 3 seconds and
\* no later than 3 + 2 seconds after the step began.
C21_SamplesOnlyInWindow ==
    mon.calSampleStep \in CaptureKeys =>
        /\ mon.calSampleAfter >= LeadInMs
        /\ mon.calSampleAfter <= LeadInMs + CALIBRATION_DURATION_MS

\* C22: the stored profile changes only in a step that takes the modal from
\* the last capture step to COMPLETE; a window that closes into ERROR and a
\* cancel leave it as it was.
C22_ProfileWrittenOnlyOnComplete ==
    [][/\ localStorage' # localStorage =>
            /\ modal.currentStep = "both"
            /\ modal'.currentStep = "complete"
       /\ modal'.currentStep = "error" => localStorage' = localStorage
       /\ (modal.isOpen /\ ~modal'.isOpen /\ modal'.currentStep # "complete") =>
            localStorage' = localStorage]_vars

\* a run ended in ERROR after an earlier run had stored a profile
C22_Witness ==
    /\ modal.currentStep = "error"
    /\ StoredProfile(localStorage).calibrated
    /\ StoredProfile(localStorage) = Calibration(TRUE, 300, 280, 280)

----------------------------------------------------------------------------
(* Claims about computeThresholds (SpecThresholds) *)

\* v is d raised to 0
RaisedToZero(v, d) == v >= 0 /\ v >= d /\ (v = 0 \/ v = d)
\* v is the smaller of a and b
SmallerOf(v, a, b) == v <= a /\ v <= b /\ (v = a \/ v = b)

\* the step averages of the spec's example
ExampleStepData ==
    [k \in CaptureKeys |->
        CASE k = "rest" -> StepAverage(0, 0)
          [] k = "right" -> StepAverage(300, 0)
          [] k = "left" -> StepAverage(0, 280)
          [] k = "both" -> StepAverage(250, 220)]

\* C23: the emitted profile is calibrated, its deltas are the rises of the
\* right, left and both steps over the rest step, raised to 0, the both delta
\* taken from the hand that rose less; the example averages give 0.3, 0.28, 0.22.
C23_ProfileFromStepAverages ==
    mon.calEmitted > 0 =>
        LET d == modal.allStepDataRef
        IN /\ StoredProfile(localStorage).calibrated
           /\ ~StoredProfile(localStorage).isNull
           /\ RaisedToZero(StoredProfile(localStorage).rightHandUpDelta,
                           d["right"].dyRight - d["rest"].dyRight)
           /\ RaisedToZero(StoredProfile(localStorage).leftHandUpDelta,
                           d["left"].dyLeft - d["rest"].dyLeft)
           /\ \E v \in {d["both"].dyRight - d["rest"].dyRight,
                        d["both"].dyLeft - d["rest"].dyLeft} :
                 /\ SmallerOf(v, d["both"].dyRight - d["rest"].dyRight,
                                 d["both"].dyLeft - d["rest"].dyLeft)
                 /\ RaisedToZero(StoredProfile(localStorage).bothHandsUpDelta, v)
           /\ d = ExampleStepData =>
                 StoredProfile(localStorage) = Calibration(TRUE, 300, 280, 220)

\* the example run was completed
C23_Witness ==
    /\ mon.calEmitted > 0
    /\ modal.currentStep = "complete"
    /\ modal.allStepDataRef = ExampleStepData
    /\ StoredProfile(localStorage) = Calibration(TRUE, 300, 280, 220)

----------------------------------------------------------------------------
(* Claims about the calibration overrides of the classifier (SpecClassify) *)

\* t ten-thousandths is num/den times d thousandths
TimesDelta(t, num, den, d) == t * den = num * (10 * d)

\* C24: with a loaded profile of calibrated = true the SELECT threshold is
\* -0.8 x bothHandsUpDelta, the NEXT vertical tolerance 1.5 x leftHandUpDelta
\* and the PREV vertical tolerance 1.5 x rightHandUpDelta, each only when that
\* delta is > 0 and the default otherwise; the horizontal minimums are the
\* defaults; without a calibrated profile all five are the defaults; and the
\* classification of a usable frame is the one these thresholds give.
C24_CalibrationOverrides ==
    LET b == BaseThresholds(calibration)
        on == ~calibration.isNull /\ calibration.calibrated
    IN /\ b.prevDxRightMin = PREV_DX_RIGHT_MIN
       /\ b.nextDxLeftMin = NEXT_DX_LEFT_MIN
       /\ IF on /\ calibration.bothHandsUpDelta > 0
          THEN TimesDelta(b.selectDyThreshold, -8, 10, calibration.bothHandsUpDelta)
          ELSE b.selectDyThreshold = SELECT_DY_THRESHOLD
       /\ IF on /\ calibration.leftHandUpDelta > 0
          THEN TimesDelta(b.nextAbsDyLeftMax, 15, 10, calibration.leftHandUpDelta)
          ELSE b.nextAbsDyLeftMax = NEXT_ABS_DY_LEFT_MAX
       /\ IF on /\ calibration.rightHandUpDelta > 0
          THEN TimesDelta(b.prevAbsDyRightMax, 15, 10, calibration.rightHandUpDelta)
          ELSE b.prevAbsDyRightMax = PREV_ABS_DY_RIGHT_MAX
       /\ (inferredGesture # NoGesture /\ ~FrameUnusable(landmarks)) =>
             inferredGesture =
                Classify(Features(landmarks),
                         [k \in ThresholdNames |-> Adjusted(b[k], sensitivityFactor)])

\* a frame was classified under a calibrated profile with one delta > 0 and
\* one delta of 0, and differently than without the profile
C24_Witness ==
    /\ inferredGesture # NoGesture
    /\ ~calibration.isNull /\ calibration.calibrated
    /\ calibration.leftHandUpDelta > 0
    /\ calibration.rightHandUpDelta = 0
    /\ inferredGesture #
          inferGestureFromLandmarks(landmarks, sensitivityFactor, NoCalibration)

----------------------------------------------------------------------------
(* Claims about loading the profile (SpecLoad) *)

\* a text that is not the JSON of an object with three numeric deltas and a
\* boolean calibrated
Malformed(entry) ==
    \/ entry.kind \in {"unparsable", "null", "number", "array"}
    \/ /\ entry.kind = "object"
       /\ \/ \E k \in {"rightHandUpDelta", "leftHandUpDelta", "bothHandsUpDelta"} :
                entry.obj[k].type # "number"
          \/ entry.obj.calibrated.type # "boolean"

\* the five built-in defaults
DefaultThresholds ==
    [prevDxRightMin |-> PREV_DX_RIGHT_MIN, prevAbsDyRightMax |-> PREV_ABS_DY_RIGHT_MAX,
     nextDxLeftMin |-> NEXT_DX_LEFT_MIN, nextAbsDyLeftMax |-> NEXT_ABS_DY_LEFT_MAX,
     selectDyThreshold |-> SELECT_DY_THRESHOLD]

\* the last classification loaded the profile, did not throw, got null and
\* classified with the defaults
LoadedNullAndDefaults ==
    /\ ~mon.loadThrew
    /\ calibration = NoCalibration
    /\ BaseThresholds(calibration) = DefaultThresholds
    /\ inferredGesture =
          inferGestureFromLandmarks(landmarks, sensitivityFactor, NoCalibration)

\* C25 as stated: loadCalibrationThresholds does not throw; for an absent
\* entry, an empty or unparsable text or an invalid structure it returns
\* null and the classification uses the defaults; and every stored text that
\* is not a valid profile, the empty one included, is removed.
C25_LoadNeverThrows ==
    mon.loadTried =>
        /\ ~mon.loadThrew
        /\ (mon.loadedEntry.kind \in {"absent", "empty"} \/ Malformed(mon.loadedEntry)
              \/ localStorage.unavailable) => LoadedNullAndDefaults
        /\ ((mon.loadedEntry.kind = "empty" \/ Malformed(mon.loadedEntry))
              /\ ~localStorage.unavailable) => localStorage.gestureCalibration = NoEntry

\* C25, amended: as above, but only a non-empty stored text that is not a
\* valid profile is removed; an empty text is treated as no entry and stays.
C25_LoadNeverThrowsNonEmpty ==
    mon.loadTried =>
        /\ ~mon.loadThrew
        /\ (mon.loadedEntry.kind \in {"absent", "empty"} \/ Malformed(mon.loadedEntry)
              \/ localStorage.unavailable) => LoadedNullAndDefaults
        /\ (Malformed(mon.loadedEntry) /\ ~localStorage.unavailable) =>
              localStorage.gestureCalibration = NoEntry
        /\ mon.loadedEntry.kind = "empty" =>
              localStorage.gestureCalibration = mon.loadedEntry

\* an unparsable entry was loaded and removed, two seconds or more into the
\* run
C25_Witness ==
    /\ mon.loadTried
    /\ mon.loadedEntry.kind = "unparsable"
    /\ localStorage.gestureCalibration = NoEntry
    /\ calibration = NoCalibration
    /\ inferredGesture # NoGesture
    /\ now >= StartTime + CALIBRATION_CACHE_MS

----------------------------------------------------------------------------
(* Claims about progressStorage (SpecProgress) *)

ProgressPending(c) == ProgressTimers(timers, c) # {}

C27_ResetCancelsPendingWrite ==
    [][\A c \in Categories :
          /\ mon'.progReset[c] =>
                /\ loadProgress(localStorage', c).result = NoProgress
                /\ localStorage'.progress[c] = NoProgressEntry
                /\ ProgressTimers(timers', c) = {}
                /\ pendingWrites'[c] = NoProgress
                /\ mon'.progLast = [op |-> "load", cat |-> c] =>
                      mon'.progLoaded = NoProgress
          /\ (mon'.progOps # mon.progOps
                /\ mon'.progLast = [op |-> "reset", cat |-> c]) =>
                \A d \in Categories \ {c} :
                    /\ localStorage'.progress[d] = localStorage.progress[d]
                    /\ pendingWrites'[d] = pendingWrites[d]
                    /\ ProgressTimers(timers', d) = ProgressTimers(timers, d)
      ]_vars

\* a reset cancelled a pending write whose deadline has since passed, the
\* category was loaded after it, and another category has progress stored
\* and a write pending
C27_Witness ==
    \E c \in Categories :
        /\ mon.progReset[c]
        /\ mon.progCancelled[c] > 0
        /\ now > mon.progCancelled[c]
        /\ mon.progLast = [op |-> "load", cat |-> c]
        /\ \E d \in Categories \ {c} :
              /\ localStorage.progress[d].kind = "object"
              /\ ProgressPending(d)

----------------------------------------------------------------------------
(* Claims about quizStatsStorage (SpecQuiz) *)

\* the keys under which the lesson page records the answers to the cards of
\* category c
LegacyKeysOf(c) == {generateCardKey(c, card.german) : card \in getFlashcardsForCategory(c)}
V2KeysOf(c) == {getCardId(card) : card \in getFlashcardsForCategory(c)}

\* C28: resetQuizStatsForCategory(c) leaves no entry of the cards of c in the
\* legacy store nor in the v2 store, the v2 entries recorded by
\* updateQuizStatsForAnswer included, and leaves the entries of the cards of
\* every other category as they were.
C28_ResetRemovesCategoryStats ==
    [][\A cat \in getCategories :
          (mon'.quizReset = cat.id /\ mon.quizReset # cat.id) =>
              /\ LegacyKeysOf(cat.id) \cap DOMAIN loadQuizStatsFromStorage(localStorage') = {}
              /\ V2KeysOf(cat.id) \cap DOMAIN loadQuizStats(localStorage') = {}
              /\ \A other \in getCategories \ {cat} :
                    /\ \A k \in LegacyKeysOf(other.id) :
                          /\ k \in DOMAIN loadQuizStatsFromStorage(localStorage')
                                <=> k \in DOMAIN loadQuizStatsFromStorage(localStorage)
                          /\ k \in DOMAIN loadQuizStatsFromStorage(localStorage) =>
                                loadQuizStatsFromStorage(localStorage')[k]
                                   = loadQuizStatsFromStorage(localStorage)[k]
                    /\ \A k \in V2KeysOf(other.id) :
                          /\ k \in DOMAIN loadQuizStats(localStorage')
                                <=> k \in DOMAIN loadQuizStats(localStorage)
                          /\ k \in DOMAIN loadQuizStats(localStorage) =>
                                loadQuizStats(localStorage')[k] = loadQuizStats(localStorage)[k]
      ]_vars

----------------------------------------------------------------------------
(* Claims about an endless stream (SpecHeld) *)

\* processed frames arrive less than 150 ms apart and the majority vote of
\* the last one is PREV
Held == mon.sinceFrame < DEBOUNCE_MS /\ mon.lastMajority = "PREV"

\* C29: a steadily held gesture propagates: no run has, from some moment
\* on, processed frames less than 150 ms apart whose majority vote is always
\* PREV while currentGesture never is PREV.
C29_HeldGesturePropagates == []<>(~Held \/ pose.currentGesture = "PREV")

----------------------------------------------------------------------------
(* Claims about the reach of the classifier (SpecClassify) *)

\* the frames of the sample geometries: four visible landmarks with
\* coordinates in [0,1], the wrists up to a whole unit above, below and
\* beside the shoulders
ValidFrames == {ApplyDefect(g, <<"none", 0>>) : g \in Geometries}

\* gestures that are the classification of a valid frame at sensitivity s
\* with the profile cal
Reach(s, cal) == {inferGestureFromLandmarks(f, s, cal) : f \in ValidFrames}

\* C30: with the default thresholds, no calibration and the default
\* sensitivity 0.12, each of REST, NEXT, PREV and SELECT is the
\* classification of at least one valid frame with coordinates in [0,1].
C30_EachGestureClassified ==
    (sensitivityFactor = DefaultSensitivity /\ calibration.isNull) =>
        GestureType \subseteq Reach(sensitivityFactor, calibration)

----------------------------------------------------------------------------
(* Claims about refused and attempted gesture dispatches (Spec) *)

\* C31: a gesture whose dispatch the gesture effect saw refused (cooldown
\* or animation lock) is not dispatched again while currentGesture stays
\* that gesture, however often the effect runs again and whether or not the
\* cooldown has expired; only a change of currentGesture leads to a call.
C31_RefusedNotRetried ==
    /\ ~mon.retried
    /\ mon.heldRefused # NoGesture =>
          /\ mon.heldRefused = pose.currentGesture
          /\ lesson.previousGestureRef = pose.currentGesture

\* a gesture was refused, is still held, and the effect has run again after
\* the cooldown expired, with no flip in progress and the lesson going on
C31_Witness ==
    /\ mon.heldRefused # NoGesture
    /\ mon.heldRerun
    /\ ~lesson.isComplete
    /\ now - state.lastActionTime >= cooldownMs

\* C32: the gesture effect calls dispatch only in a render in which
\* currentGesture has changed, from REST or SELECT, to a value other than
\* REST, and the lesson is not complete; a change from NEXT or PREV to
\* another gesture leads to no call.
C32_AttemptOnlyOnChange ==
    mon.attempt.to # NoGesture =>
        /\ mon.attempt.from # mon.attempt.to
        /\ mon.attempt.from \in {"REST", "SELECT"}
        /\ mon.attempt.to # "REST"
        /\ ~mon.attempt.complete

----------------------------------------------------------------------------
(* Claims about the throttle of the gesture setter (SpecThrottle) *)

\* C33: a candidate that a debounce callback found less than 66 ms after the
\* last emission is left to an animation frame and is not lost: until it is
\* emitted or replaced by a newer candidate, a callback that will check it
\* again is pending.
C33_DeferredNotLost ==
    mon.deferred # NoGesture =>
        /\ pose.pendingGestureRef = mon.deferred
        /\ \E tm \in timers : tm.kind = "raf"

----------------------------------------------------------------------------
(* Claims about the refusals of the dispatcher (SpecRepeat) *)

\* the reasons dispatch can return for a call of the last accepted action,
\* from either source, flipping or not, any number of milliseconds up to
\* the cooldown and the window together after it was accepted
RepeatReasons(st) ==
    {dispatch(st, st.lastActionTime + d, st.lastActionType, src, f).reason :
        d \in 0..(cooldownMs + repeatPreventionMs), src \in Source, f \in BOOLEAN}

\* C34: with cooldownMs = 1000 and repeatPreventionMs = 300 the
\* repeat-prevention rule is effective: once NEXT, PREV or SELECT has been
\* accepted, some call of dispatch is refused with reason
\* 'repeat_prevention'.
C34_RepeatPreventionEffective ==
    state.lastActionType \in {"NEXT", "PREV", "SELECT"} =>
        "repeat_prevention" \in RepeatReasons(state)

\* C34, amended: with cooldownMs = 1000 and repeatPreventionMs = 300 no
\* call of dispatch returns the reason 'repeat_prevention': a repetition of
\* the last accepted action inside the window of 300 ms is inside the
\* cooldown too, and is refused with reason 'cooldown' (or 'flip_animation'
\* while a flip is in progress).
C34_RepeatPreventionNeverReturned ==
    /\ lastResult.reason # "repeat_prevention"
    /\ (/\ lastResult.called
        /\ lastResult.action = lastResult.prevType
        /\ lastResult.action # "REST"
        /\ lastResult.at - lastResult.prevTime < repeatPreventionMs)
       => /\ ~lastResult.dispatched
          /\ lastResult.reason = IF lastResult.isFlipping THEN "flip_animation"
                                 ELSE "cooldown"

\* NEXT was accepted and called again 200 ms later, with no flip in
\* progress: the call was refused for cooldown
C34_Witness ==
    /\ lastResult.called
    /\ lastResult.action = "NEXT"
    /\ lastResult.prevType = "NEXT"
    /\ ~lastResult.isFlipping
    /\ lastResult.at - lastResult.prevTime = 200
    /\ lastResult.reason = "cooldown"

\* C35: a dispatch call that is refused, for whatever reason, leaves
\* lastActionTime, lastActionType and the action log as they were.
C35_RefusalChangesNothing ==
    [][(calls' = calls + 1 /\ ~lastResult'.dispatched) => state' = state]_vars

\* the last call, of another action than the last accepted one, was refused
\* for cooldown 200 ms after the second accepted action: both log entries and
\* the time and type of the second are in place
C35_Witness ==
    /\ lastResult.called
    /\ ~lastResult.dispatched
    /\ lastResult.reason = "cooldown"
    /\ Len(state.actionLog) = 2
    /\ state.lastActionTime = state.actionLog[2].timestamp
    /\ state.lastActionType = state.actionLog[2].action
    /\ lastResult.at = state.lastActionTime + 200
    /\ lastResult.action # state.lastActionType

----------------------------------------------------------------------------
(* Claims about opening and leaving the calibration modal (SpecCalibration) *)

\* C36: whenever the calibration modal is opened, the run starts at the rest
\* step and no step average of an earlier run is left, whether that run
\* completed or was cancelled.
C36_OpensAtRest ==
    [][(~modal.isOpen /\ modal'.isOpen) =>
          /\ modal'.currentStep = "rest"
          /\ modal'.allStepDataRef = NoStepData]_vars

\* the timers of the modal: countdownInterval, collectionTimeout and the
\* timeout that advances the step
ModalTimers == {tm \in timers : tm.kind \in {"countdown", "collection"} \cup CaptureKeys}

\* C37: an open calibration run is never left on a capture step with no
\* timer pending: while the modal is open on a capture step, a timer that
\* will carry the run on towards complete or error is pending.
C37_NeverStuck ==
    (modal.isOpen /\ modal.currentStep \in CaptureKeys) => ModalTimers # {}

\* C38: once the modal has left a collection window, by the window's close,
\* an error, Cancel or Close, its landmark callback is unregistered and no
\* sample is added to the accumulator; and while the modal is closed no step
\* transition happens and no profile is emitted.
C38_NothingAfterLeaving ==
    [][/\ (~modal'.isOpen \/ ~modal'.isCollecting) => ~modal'.landmarksCallbackRef
       /\ ~modal.landmarksCallbackRef =>
              modal'.collectedDeltasRef \in {modal.collectedDeltasRef, <<>>}
       /\ (~modal.isOpen /\ ~modal'.isOpen) =>
              /\ modal'.currentStep = modal.currentStep
              /\ modal'.allStepDataRef = modal.allStepDataRef
              /\ localStorage' = localStorage]_vars

C40_ThrottleProcessesOnce ==
    /\ \A id \in 1..MaxResults : mon.processed[id] <= 1
    /\ Cardinality({tm \in timers : tm.kind = "frame"}) <= 1
    /\ \A tm \in timers : tm.kind = "frame" => tm.handle = camera.globalRafId
    /\ ~mon.frameStale
    /\ \A id \in mon.dropped : mon.processed[id] = 0
    /\ Len(camera.gestureHistoryRef)
          = Min(MAX_HISTORY_LENGTH, Cardinality({id \in 1..MaxResults : mon.processed[id] > 0}))

\* a result was processed at once, a later one was replaced while it was
\* pending, and the one that replaced it was processed by the animation frame
C40_Witness ==
    \E a, b, c \in 1..MaxResults :
        /\ a < b /\ b < c
        /\ mon.processed[a] = 1 /\ a \notin mon.viaFrame
        /\ b \in mon.dropped
        /\ c \in mon.viaFrame
        /\ Len(camera.gestureHistoryRef) >= MIN_HISTORY_LENGTH

============================================================================
